---- MODULE Spec2Model ----
(***************************************************************************)
(* A model of the portal/sector software renderer of retro-3d             *)
(* (src/src/renderer/*.rs): one frame of Renderer::update is the sequence  *)
(* reset -> for each portal node (walls of its sector, then its ceiling    *)
(* and floor) -> sprites.                                                  *)
(*                                                                         *)
(* Numbers.  World coordinates, heights and the camera pose are integers.  *)
(* The renderer's f32 arithmetic is modelled by exact rational arithmetic  *)
(* (numerator/denominator pairs, compared by their signs), so rounding     *)
(* error is not modelled.  The float -> usize casts (`as usize`) are       *)
(* modelled as Rust defines them: saturating at 0, truncating otherwise.   *)
(* The horizontal field of view is 90 degrees and the screen is square,    *)
(* so focal_width = half_width and focal_height = half_height exactly.     *)
(* NEAR = 0.00001 is smaller than the spacing of the integer grid: for an  *)
(* integer y, y < NEAR iff y <= 0, and the frustum's two near vertices     *)
(* fall on the origin.                                                     *)
(***************************************************************************)
EXTENDS Integers, Sequences, FiniteSets, TLC

\* ---------------------------------------------------------------- bounds
\* Screen width in pixels; the screen is square.
Width == 8
\* Frames (calls of Renderer::update) a behaviour runs.
MaxFrames == 2
\* Portal nodes a frame may push before the model stops following it.
MaxNodes == 6

\* ------------------------------------------------------ program constants
\* consts.rs: the far plane.
FAR == 512
\* polygon.rs: the far end of contains_point's ray (1e30 in the source;
\* here any number larger than every coordinate, kept within TLC's integers).
\* The model also uses it for the saturated cast of an infinite float.
INFINITY == 1000000
\* Renderer::new: PortalTree::with_depth(4, ..).
InitialLayers == 4

\* Calls made outside update that one behaviour follows.
MaxCalls == 2

\* consts.rs: the number of mip levels of a texture, and the factor that
\* scales normalised depth to a level.
MIP_LEVELS == 3
MIP_FACTOR == 4

\* The (square) viewport sizes set_viewport is called with in world w; a
\* renderer starts at Width.  The window is resized in the worlds Doors and
\* Notch.
Sizes(w) == IF w \in {3, 5} THEN {Width, Width - 2} ELSE {Width}

\* The worlds in which the debug key is pressed: Loop and Notch.
DebugKey(w) == w \in {4, 5}


\* ---------------------------------------------------------------- helpers
Min(a, b) == IF a < b THEN a ELSE b
Max(a, b) == IF a > b THEN a ELSE b

\* Ord::clamp: the caller guarantees lo <= hi (Rust panics otherwise).
clamp(v, lo, hi) == IF v < lo THEN lo ELSE IF v > hi THEN hi ELSE v

Sign(n) == IF n > 0 THEN 1 ELSE IF n < 0 THEN -1 ELSE 0

\* `value as usize` for the float num/den (den > 0): negative values saturate
\* to 0, the others truncate toward zero.
as_usize(num, den) == IF num < 0 THEN 0 ELSE num \div den

\* Vec2f: a pair <<x, y>>.
Sub(p, q) == <<p[1] - q[1], p[2] - q[2]>>
Add(p, q) == <<p[1] + q[1], p[2] + q[2]>>
cross(p, q) == p[1] * q[2] - p[2] * q[1]

\* Vec2f::rotate(sin, cos)
rotate(p, sin, cos) == <<p[1] * cos - p[2] * sin, p[1] * sin + p[2] * cos>>

\* y < NEAR for an integer y.
lt_NEAR(y) == y <= 0

\* ------------------------------------------------- maths::geometry::Segment
\* 0 <= n/d <= 1 for d # 0, decided by signs (t >= 0.0 && t <= 1.0).
UnitRange(n, d) == IF d > 0 THEN 0 <= n /\ n <= d ELSE d <= n /\ n <= 0

\* Segment::intersects: s and o are pairs <<a, b>> of points.
intersects(s, o) ==
    LET edge_1 == Sub(s[2], s[1])
        edge_2 == Sub(o[2], o[1])
        c      == cross(edge_1, edge_2)
        start  == Sub(o[1], s[1])
    IN  IF c = 0 THEN FALSE
        ELSE UnitRange(cross(start, edge_2), c) /\ UnitRange(cross(start, edge_1), c)

\* ------------------------------------------------- maths::geometry::Polygon
PolyEdge(poly, i) == <<poly[i], poly[(i % Len(poly)) + 1]>>

\* Polygon::contains_point: parity of the edges crossed by the ray to +INFINITY.
contains_point(poly, p) ==
    LET ray == <<p, <<INFINITY, p[2]>>>>
        hits == {i \in 1..Len(poly) : intersects(PolyEdge(poly, i), ray)}
    IN  Cardinality(hits) % 2 = 1

\* Polygon::intersects_ray
intersects_ray(poly, seg) == \E i \in 1..Len(poly) : intersects(PolyEdge(poly, i), seg)

\* Polygon::extents as [min_x, min_y, max_x, max_y].
SeqMin(f, n) == CHOOSE v \in {f[i] : i \in 1..n} : \A i \in 1..n : v <= f[i]
SeqMax(f, n) == CHOOSE v \in {f[i] : i \in 1..n} : \A i \in 1..n : v >= f[i]
extents(poly) ==
    [min_x |-> SeqMin([i \in 1..Len(poly) |-> poly[i][1]], Len(poly)),
     min_y |-> SeqMin([i \in 1..Len(poly) |-> poly[i][2]], Len(poly)),
     max_x |-> SeqMax([i \in 1..Len(poly) |-> poly[i][1]], Len(poly)),
     max_y |-> SeqMax([i \in 1..Len(poly) |-> poly[i][2]], Len(poly))]

\* Segment::overlaps_polygon
overlaps_polygon(seg, poly) ==
    LET bounds == extents(poly)
        a == seg[1]
        b == seg[2]
    IN  IF a[1] < bounds.min_x /\ b[1] < bounds.min_x THEN FALSE
        ELSE IF a[1] > bounds.max_x /\ b[1] > bounds.max_x THEN FALSE
        ELSE IF a[2] < bounds.min_y /\ b[2] < bounds.min_y THEN FALSE
        ELSE IF a[2] > bounds.max_y /\ b[2] > bounds.max_y THEN FALSE
        ELSE IF intersects_ray(poly, seg) THEN TRUE
        ELSE contains_point(poly, a) \/ contains_point(poly, b)

\* util::view_frustum(90 degrees): tan(h_fov / 2) = 1, NEAR on the origin.
view_frustum == <<(<<-FAR, FAR>>), (<<FAR, FAR>>), (<<0, 0>>), (<<0, 0>>)>>


\* ------------------------------------------------------------ the world
\* surface.rs.  A wall is [a, b, portal]; portal is NoPortal or the index of
\* the neighbour sector (sectors are numbered from 1 here, from 0 in the
\* source).  A sector is [walls, floor, ceiling] (heights).  A sprite is
\* [position, sector_index, width, height]; sector_index is the field
\* draw_sprite reads to pick the sprite's portal nodes.
NoPortal == 0
Wall(a, b, portal) == [a |-> a, b |-> b, portal |-> portal]
Sector(walls, floor, ceiling) == [walls |-> walls, floor |-> floor, ceiling |-> ceiling]
Sprite(position, sector_index, width, height) ==
    [position |-> position, sector_index |-> sector_index, width |-> width, height |-> height]

\* Textures.  A texture is modelled by the alpha of its level 0, which is
\* taken to be the same in every texel (the colour channels are not
\* modelled); generate_mip_maps gives every texel of the levels above 0 alpha
\* 0xFF.  A world names, for each kind of surface, the level-0 alpha of the
\* texture all its surfaces of that kind use.
TextureAlpha(wall, upper, lower, ceiling, floor, sprite) ==
    [wall |-> wall, upper |-> upper, lower |-> lower, ceiling |-> ceiling, floor |-> floor,
     sprite |-> sprite]
Opaque == TextureAlpha(255, 255, 255, 255, 255, 255)

\* Rooms: room 1 (8 x 8, floor 0, ceiling 4); through an opening in its north
\* wall room 2 (4 x 4, floor 1, ceiling 3) with a sprite in it; through an
\* opening in the north wall of room 2 the tall room 3 (floor -6, ceiling 12).
Rooms ==
    [sectors |-> <<
        Sector(<< Wall(<<-4, 4>>, <<-2, 4>>, NoPortal),
                  Wall(<<-2, 4>>, <<2, 4>>, 2),
                  Wall(<<2, 4>>, <<4, 4>>, NoPortal),
                  Wall(<<4, 4>>, <<4, -4>>, NoPortal),
                  Wall(<<4, -4>>, <<-4, -4>>, NoPortal),
                  Wall(<<-4, -4>>, <<-4, 4>>, NoPortal) >>, 0, 4),
        Sector(<< Wall(<<2, 4>>, <<-2, 4>>, 1),
                  Wall(<<-2, 4>>, <<-2, 8>>, NoPortal),
                  Wall(<<-2, 8>>, <<2, 8>>, 3),
                  Wall(<<2, 8>>, <<2, 4>>, NoPortal) >>, 1, 3),
        Sector(<< Wall(<<2, 8>>, <<-2, 8>>, 2),
                  Wall(<<-2, 8>>, <<-2, 12>>, NoPortal),
                  Wall(<<-2, 12>>, <<2, 12>>, NoPortal),
                  Wall(<<2, 12>>, <<2, 8>>, NoPortal) >>, -6, 12) >>,
     sprites |-> << Sprite(<<0, 6>>, 2, 2, 2) >>,
     texture_alpha |-> TextureAlpha(255, 255, 255, 255, 255, 128)]

\* Hall: room 1 (8 x 8, floor 0, ceiling 6) and, through an opening in its
\* north wall, a hall (floor 1, ceiling 4) whose end wall lies 596 units away,
\* farther than FAR from every camera position in room 1.
Hall ==
    [sectors |-> <<
        Sector(<< Wall(<<-4, 4>>, <<-2, 4>>, NoPortal),
                  Wall(<<-2, 4>>, <<2, 4>>, 2),
                  Wall(<<2, 4>>, <<4, 4>>, NoPortal),
                  Wall(<<4, 4>>, <<4, -4>>, NoPortal),
                  Wall(<<4, -4>>, <<-4, -4>>, NoPortal),
                  Wall(<<-4, -4>>, <<-4, 4>>, NoPortal) >>, 0, 6),
        Sector(<< Wall(<<2, 4>>, <<-2, 4>>, 1),
                  Wall(<<-2, 4>>, <<-2, 600>>, NoPortal),
                  Wall(<<-2, 600>>, <<2, 600>>, NoPortal),
                  Wall(<<2, 600>>, <<2, 4>>, NoPortal) >>, 1, 4) >>,
     sprites |-> << >>,
     texture_alpha |-> TextureAlpha(128, 255, 255, 255, 255, 255)]

\* Doors: room 1 (8 x 8) whose north wall has two openings, left and right of
\* a pillar, into the same room 2 (6 x 4), which opens north into room 3.
\* Sprite 1 stands in room 2 behind the pillar, sprite 2 is a wide one across
\* both openings, sprite 3 stands in room 1.
Doors ==
    [sectors |-> <<
        Sector(<< Wall(<<-4, 4>>, <<-3, 4>>, NoPortal),
                  Wall(<<-3, 4>>, <<-1, 4>>, 2),
                  Wall(<<-1, 4>>, <<1, 4>>, NoPortal),
                  Wall(<<1, 4>>, <<3, 4>>, 2),
                  Wall(<<3, 4>>, <<4, 4>>, NoPortal),
                  Wall(<<4, 4>>, <<4, -4>>, NoPortal),
                  Wall(<<4, -4>>, <<-4, -4>>, NoPortal),
                  Wall(<<-4, -4>>, <<-4, 4>>, NoPortal) >>, 0, 4),
        Sector(<< Wall(<<3, 4>>, <<1, 4>>, 1),
                  Wall(<<1, 4>>, <<-1, 4>>, NoPortal),
                  Wall(<<-1, 4>>, <<-3, 4>>, 1),
                  Wall(<<-3, 4>>, <<-3, 8>>, NoPortal),
                  Wall(<<-3, 8>>, <<3, 8>>, 3),
                  Wall(<<3, 8>>, <<3, 4>>, NoPortal) >>, 1, 3),
        Sector(<< Wall(<<3, 8>>, <<-3, 8>>, 2),
                  Wall(<<-3, 8>>, <<-3, 12>>, NoPortal),
                  Wall(<<-3, 12>>, <<3, 12>>, NoPortal),
                  Wall(<<3, 12>>, <<3, 8>>, NoPortal) >>, 0, 4) >>,
     sprites |-> << Sprite(<<0, 6>>, 2, 2, 2), Sprite(<<0, 7>>, 2, 6, 2),
                    Sprite(<<2, 3>>, 1, 2, 1) >>,
     texture_alpha |-> Opaque]

\* Loop: room 1 opens north into room 2, and the north wall of room 2 is a
\* portal that leads to room 1 again (a corridor that repeats; the portal
\* has no reversed twin, which the world format allows).
Loop ==
    [sectors |-> <<
        Sector(<< Wall(<<-4, 4>>, <<4, 4>>, 2),
                  Wall(<<4, 4>>, <<4, -4>>, NoPortal),
                  Wall(<<4, -4>>, <<-4, -4>>, NoPortal),
                  Wall(<<-4, -4>>, <<-4, 4>>, NoPortal) >>, 0, 4),
        Sector(<< Wall(<<4, 4>>, <<-4, 4>>, 1),
                  Wall(<<-4, 4>>, <<-4, 12>>, NoPortal),
                  Wall(<<-4, 12>>, <<4, 12>>, 1),
                  Wall(<<4, 12>>, <<4, 4>>, NoPortal) >>, 0, 4) >>,
     sprites |-> << >>,
     texture_alpha |-> Opaque]

\* Notch: room 1 is not convex: a thick partition reaches into it from the
\* east (x in -1..4, y in 4..5) and holds an alcove, sector 3, open to the
\* south.  Behind the partition the north wall of the room opens into room 2.
Notch ==
    [sectors |-> <<
        Sector(<< Wall(<<-4, 12>>, <<4, 12>>, 2),
                  Wall(<<4, 12>>, <<4, 5>>, NoPortal),
                  Wall(<<4, 5>>, <<-1, 5>>, NoPortal),
                  Wall(<<-1, 5>>, <<-1, 4>>, NoPortal),
                  Wall(<<-1, 4>>, <<4, 4>>, 3),
                  Wall(<<4, 4>>, <<4, -4>>, NoPortal),
                  Wall(<<4, -4>>, <<-4, -4>>, NoPortal),
                  Wall(<<-4, -4>>, <<-4, 12>>, NoPortal) >>, 0, 4),
        Sector(<< Wall(<<4, 12>>, <<-4, 12>>, 1),
                  Wall(<<-4, 12>>, <<-4, 16>>, NoPortal),
                  Wall(<<-4, 16>>, <<4, 16>>, NoPortal),
                  Wall(<<4, 16>>, <<4, 12>>, NoPortal) >>, 0, 4),
        Sector(<< Wall(<<4, 4>>, <<-1, 4>>, 1),
                  Wall(<<-1, 4>>, <<-1, 5>>, NoPortal),
                  Wall(<<-1, 5>>, <<4, 5>>, NoPortal),
                  Wall(<<4, 5>>, <<4, 4>>, NoPortal) >>, 1, 3) >>,
     sprites |-> << >>,
     texture_alpha |-> TextureAlpha(255, 128, 255, 255, 255, 255)]

\* Pit: one room (400 x 204) whose floor lies 64 below the eye, so that the
\* rows of its floor are 85 to 256 units deep and use every mip level.
Pit ==
    [sectors |-> <<
        Sector(<< Wall(<<-200, 200>>, <<200, 200>>, NoPortal),
                  Wall(<<200, 200>>, <<200, -4>>, NoPortal),
                  Wall(<<200, -4>>, <<-200, -4>>, NoPortal),
                  Wall(<<-200, -4>>, <<-200, 200>>, NoPortal) >>, -62, 4) >>,
     sprites |-> << >>,
     texture_alpha |-> Opaque]

Worlds == << Rooms, Hall, Doors, Loop, Notch, Pit >>

\* Player snapshots (camera pose and sector) tried for each world.  The yaw
\* is a quarter turn (sin, cos in -1..1), the pitch -45, 0 or 45 degrees.
Camera(position, z, yaw_sin, yaw_cos, pitch_tan) ==
    [position |-> position, z |-> z, yaw_sin |-> yaw_sin, yaw_cos |-> yaw_cos,
     pitch_tan |-> pitch_tan]
Player(position, z, yaw_sin, yaw_cos, pitch_tan, sector_index) ==
    [camera |-> Camera(position, z, yaw_sin, yaw_cos, pitch_tan), sector_index |-> sector_index]

Players(w) ==
    IF w = 1 THEN {Player(<<x, 0>>, 2, 0, 1, 0, 1) : x \in -1..1}
                  \cup {Player(<<-3, 3>>, 2, 0, 1, 0, 1), Player(<<0, 2>>, 3, 0, 1, 1, 1),
                        Player(<<0, 5>>, 2, 0, 1, 0, 2), Player(<<1, 1>>, 2, 1, 0, 0, 1)}
    ELSE IF w = 2 THEN {Player(<<x, y>>, 2, 0, 1, 0, 1) : x \in -1..1, y \in {0, 2}}
    ELSE IF w = 3 THEN {Player(<<x, y>>, 2, 0, 1, 0, 1) : x \in -1..1, y \in {0, 2}}
                       \cup {Player(<<0, 2>>, 2, 0, 1, 1, 1)}
    ELSE IF w = 4 THEN {Player(<<x, 0>>, 2, 0, 1, 0, 1) : x \in -1..1}
    ELSE IF w = 5 THEN {Player(<<x, 0>>, 2, 0, 1, 0, 1) : x \in -1..0}
    ELSE {Player(<<0, 0>>, 2, 0, 1, 0, 1), Player(<<0, 0>>, 2, 0, 1, -1, 1)}

\* Mutant of overlaps_frustum: without the test of both endpoints against the
\* near side of the frustum's extents.
overlaps_frustum_no_extents(a, b) == overlaps_polygon(<<a, b>>, view_frustum)

\* The frustum test of draw_wall / draw_sprite.  The frustum's smallest y is
\* NEAR, so the extents test `a.y < min_y && b.y < min_y` of overlaps_polygon
\* is lt_NEAR of both endpoints.
overlaps_frustum(a, b) ==
    /\ ~ (lt_NEAR(a[2]) /\ lt_NEAR(b[2]))
    /\ overlaps_polygon(<<a, b>>, view_frustum)

\* ------------------------------------------------------------ projection
VARIABLES
    width,              \* RendererState.framebuffer.width
    height              \* RendererState.framebuffer.height

\* Renderer::transform_view
transform_view(cam, point) == rotate(Sub(point, cam.position), cam.yaw_sin, cam.yaw_cos)

\* A projected screen x: the rational n/d (d > 0) when inf = 0, a value
\* left (inf = -1) or right (inf = 1) of every column otherwise.
ScreenX(inf, n, d) == [inf |-> inf, n |-> n, d |-> d]

\* Renderer::project_screen_space(p, _).0.x for a point of depth p.y > 0:
\*   p.x * focal_width / p.y + half_width = width * (p.x + p.y) / (2 * p.y)
project_x(p) == ScreenX(0, width * (p[1] + p[2]), 2 * p[2])

\* The same for the endpoint p of the wall p-q that near-plane clipping
\* (draw_wall, "Near plane clipping") moved onto y = NEAR: the clipped point is
\* x0 + NEAR * dx/dy with x0 = cross(p, q) / dy, so its screen x is
\* focal_width * (x0 / NEAR + dx/dy) + half_width.  When x0 # 0 its magnitude
\* exceeds 100000 / dy, beyond every column; when x0 = 0 it is finite.
project_x_clipped(p, q) ==
    LET d == Sub(q, p)
    IN  IF cross(p, q) # 0 THEN ScreenX(Sign(cross(p, q)), 0, 1)
        ELSE ScreenX(0, width * (d[1] + d[2]), 2 * d[2])

\* Screen x of endpoint p of the wall p-q after clipping and projection.
wall_screen_x(p, q) == IF lt_NEAR(p[2]) THEN project_x_clipped(p, q) ELSE project_x(p)

\* Mutant of x_ge: no wall counts as back-facing.
x_ge_never(p, q) == FALSE

\* top_a.0.x >= top_b.0.x
x_ge(p, q) == IF p.inf # q.inf THEN p.inf > q.inf
              ELSE IF p.inf # 0 THEN TRUE
              ELSE p.n * q.d >= q.n * p.d
\* x < k and x > k for a column number k
x_lt(p, k) == IF p.inf # 0 THEN p.inf < 0 ELSE p.n < k * p.d
x_gt(p, k) == IF p.inf # 0 THEN p.inf > 0 ELSE p.n > k * p.d
\* x as usize
x_as_usize(p) == IF p.inf < 0 THEN 0 ELSE IF p.inf > 0 THEN INFINITY ELSE as_usize(p.n, p.d)

\* WallInterpolator.  The interpolated 1/depth is affine in the screen column
\* x and equals 1/depth of the wall's line p-q seen through column x:
\*   inv_depth(x) = ((2x - width) * dy - width * dx) / (width * cross(p, q))
\* which does not depend on where the wall was clipped.
inv_depth_num(p, q, x) == (2 * x - width) * (q[2] - p[2]) - width * (q[1] - p[1])
inv_depth_den(p, q) == width * cross(p, q)

\* Screen y, at column x, of the edge at world height h of the wall p-q:
\*   (camera.z - h) * focal_height * inv_depth(x) + pitch_shear + half_height
\* (project_screen_space calls the camera's height camera.height_offset,
\* draw_sector and Camera call it z)
\* as a pair <<num, den>> with den > 0 (cross(p, q) # 0 for a drawn wall).
edge_y(cam, p, q, h, x) ==
    LET n   == inv_depth_num(p, q, x)
        d   == inv_depth_den(p, q)
        num == (cam.z - h) * height * n + (cam.pitch_tan * height + height) * d
    IN  IF d > 0 THEN <<num, 2 * d>> ELSE <<-num, -2 * d>>

\* (lerp.top_y as usize).clamp(lo, hi), and the same for any wall edge.
edge_row(cam, p, q, h, x, lo, hi) ==
    LET y == edge_y(cam, p, q, h, x) IN clamp(as_usize(y[1], y[2]), lo, hi)

\* Mutant of mip_level: a level beyond the last one wraps around.
mip_level_wrapping(depth_n, depth_d, bias_n, bias_d) ==
    LET n == (MIP_FACTOR * bias_d + bias_n) * depth_n
        d == bias_d * depth_d * FAR
        k == n \div d
    IN  (IF n % d = 0 /\ k >= 1 /\ depth_n < FAR * depth_d THEN k - 1 ELSE k) % MIP_LEVELS

\* util::mip_level(normalise_depth(depth), bias) for the positive rationals
\* depth = depth_n / depth_d and bias = bias_n / bias_d:
\*   min(((MIP_FACTOR + bias) * (depth - NEAR) / (FAR - NEAR)) as usize, MIP_LEVELS - 1).
\* NEAR is infinitesimal: it only matters where (MIP_FACTOR + bias) * depth / FAR
\* is a whole number and depth < FAR, which NEAR lowers to just below it.
mip_level(depth_n, depth_d, bias_n, bias_d) ==
    LET n == (MIP_FACTOR * bias_d + bias_n) * depth_n
        d == bias_d * depth_d * FAR
        k == n \div d
    IN  Min(IF n % d = 0 /\ k >= 1 /\ depth_n < FAR * depth_d THEN k - 1 ELSE k, MIP_LEVELS - 1)

\* The mip level rasterise_wall_span picks in column x of the wall p-q:
\* depth = 1.0 / wall.inv_depth.  An inv_depth of 0 gives an infinite depth,
\* whose cast saturates; a negative one a negative depth, whose cast is 0.
wall_mip_level(p, q, x) ==
    LET n0 == inv_depth_num(p, q, x)
        d0 == inv_depth_den(p, q)
        n  == IF d0 > 0 THEN n0 ELSE -n0
        d  == IF d0 > 0 THEN d0 ELSE -d0
    IN  IF n = 0 THEN MIP_LEVELS - 1
        ELSE IF n < 0 THEN 0
        ELSE mip_level(d, n, 0, 1)

\* Texture::sample_unchecked(.., level).a for a texture of level-0 alpha a:
\* downscale_3x3_box_filter writes alpha 0xFF into every level above 0.
sample_alpha(a, level) == IF level = 0 THEN a ELSE 255

\* BGRA8::darken(lighting).a: the alpha of the colour is kept.
darken_alpha(a) == a

\* The part of draw_wall / draw_portal_wall before rasterisation: transform,
\* frustum culling, near-plane clipping, projection, back-face culling and
\* the test against the portal's columns.  drawn = FALSE is an early return.
wall_setup(cam, portal, wall) ==
    LET vs_a == transform_view(cam, wall.a)
        vs_b == transform_view(cam, wall.b)
        xa   == wall_screen_x(vs_a, vs_b)
        xb   == wall_screen_x(vs_b, vs_a)
        seen == /\ overlaps_frustum(vs_a, vs_b)
                /\ ~ x_ge(xa, xb)
                /\ ~ (x_lt(xb, portal.x_min) \/ x_gt(xa, portal.x_max))
    IN  [drawn |-> seen, vs_a |-> vs_a, vs_b |-> vs_b,
         x_min |-> IF seen THEN clamp(x_as_usize(xa), portal.x_min, portal.x_max) ELSE 0,
         x_max |-> IF seen THEN clamp(x_as_usize(xb), portal.x_min, portal.x_max) ELSE 0]

\* --------------------------------------------------------- renderer state
Columns == 0..(width - 1)
Rows == 0..(height - 1)
Pixels == Columns \X Rows

\* BGRA8::default(), the colour of a pixel nothing has drawn.
\* A pixel is <<kind of surface, sector or sprite drawn, alpha>>.
Blank == <<"blank", 0, 0>>

VARIABLES
    world,              \* index into Worlds: the sectors and sprites passed to update
    camera,             \* RendererState.camera (with pitch_shear = pitch_tan * focal_height)
    pixels,             \* RendererState.framebuffer
    debug,              \* RendererState.debug
    nodes,              \* PortalTree.nodes
    portal_bounds_min,  \* PortalTree.portal_bounds_min, one row per depth
    portal_bounds_max,  \* PortalTree.portal_bounds_max
    wall_bounds_min,    \* WallRenderer.wall_bounds_min
    wall_bounds_max,    \* WallRenderer.wall_bounds_max
    span_start,         \* PlaneRenderer.span_start
    clip_min,           \* SpriteRenderer.clip_min
    clip_max,           \* SpriteRenderer.clip_max
    pc,                 \* where Renderer::update stands
    portal_index,       \* the loop variable of Renderer::update (from 1)
    wall_index,         \* the wall of draw_sector's loop (from 1)
    sprite_index,       \* the sprite of update's sprite loop (from 1)
    frame,              \* number of update calls started
    hist,               \* history: what the last step did (see NoHist)
    canvas,             \* a Framebuffer of BGRA8 colours, for the calls made outside update
    textures,           \* Textures.textures
    call,               \* history: the last call made outside update (see NoCall)
    key_states,         \* Keyboard.key_states, for the keys of Keys
    input_hist          \* history: the last call made on Input (see NoInput)

renderer_vars == <<width, height, world, camera, pixels, debug, nodes, portal_bounds_min,
                   portal_bounds_max, wall_bounds_min, wall_bounds_max, span_start, clip_min,
                   clip_max, pc, portal_index, wall_index, sprite_index, frame, hist>>

vars == <<renderer_vars, canvas, textures, call, key_states, input_hist>>

\* History record of the calls made outside update.  n: how many were made;
\* op: the last one; args: its arguments; before: the value it replaced;
\* result: what it returned.
NoCall == [n |-> 0, op |-> "none", args |-> <<>>, before |-> <<>>, result |-> <<>>]

\* Three of the KeyCode values that index Keyboard.key_states.
Keys == {"A", "W", "F3"}

\* State::default().
StateDefault == [pressed |-> FALSE, held |-> FALSE]

\* Keyboard::new().
KeyboardNew == [k \in Keys |-> StateDefault]

\* History record of the calls made on Input.  op: the last one; key: the key
\* of its event; fresh: the keys for which a KeyPressed arrived while the key
\* was not held, since the last Input::update.
NoInput == [op |-> "new", key |-> "none", fresh |-> {}]

\* History record.  op: the step; player: the Player passed to the current
\* update (one-element sequence); written: the pixels the step set; parent: for each
\* node the index of the node whose portal wall pushed it (0 for the root);
\* processed: the nodes draw_sector has finished, in order; wall_frame,
\* clip_frame, span_frame: for each entry of wall_bounds_*, clip_* and
\* span_start the frame that last wrote it (0: the constructor); wall_node:
\* for each entry of wall_bounds_* the index of the node (the loop variable of
\* update) whose wall last wrote it; last_player,
\* last_pixels: input and framebuffer of the last completed update, as
\* one-element sequences (empty before it), last_debug: the debug flag it ran
\* with; same_input: the update that ended last had the player, the viewport
\* and the debug flag of the one before it; same_pixels: and its framebuffer;
\* debug_assert: a debug_assert! of the step failed (debug builds panic);
\* unopened: the step passed rasterise_plane_span a row its draw_plane call
\* had not opened;
\* viewport: the arguments of the last set_viewport call since the last update;
\* mip: for each pixel the last plane step set, the mip level it was sampled
\* at; out_of_bounds: the <<x, y>> the current update passed to
\* set_pixel_unchecked with x >= width or y >= height.
NoHist ==
    [op |-> "new", player |-> <<>>, viewport |-> <<>>, written |-> {}, parent |-> <<>>, processed |-> <<>>,
     wall_frame |-> [x \in Columns |-> 0], wall_node |-> [x \in Columns |-> 0],
     clip_frame |-> [x \in Columns |-> 0],
     span_frame |-> [y \in Rows |-> 0],
     last_player |-> <<>>, last_pixels |-> <<>>, last_debug |-> <<>>,
     same_input |-> FALSE, same_pixels |-> FALSE,
     debug_assert |-> FALSE, unopened |-> FALSE, out_of_bounds |-> {}, mip |-> <<>>]

\* A row of clip bounds filled with one value.
Filled(v) == [x \in Columns |-> v]

\* PortalNode (depth_min / depth_max are never read by the renderer).
PortalNode(tree_depth, sector_index, x_min, x_max) ==
    [tree_depth |-> tree_depth, sector_index |-> sector_index, x_min |-> x_min, x_max |-> x_max]

\* usize::saturating_sub.
saturating_sub(x, d) == IF x >= d THEN x - d ELSE 0

\* Renderer::new but for the clip rows of the PortalTree, the wall bounds and
\* span_start: RendererState::new, SpriteRenderer::new.
RendererNewButRows ==
    /\ width = Width
    /\ height = Width
    /\ world \in 1..Len(Worlds)
    /\ camera = Camera(<<0, 0>>, 0, 0, 1, 0)
    /\ pixels = [p \in Pixels |-> Blank]
    /\ debug = FALSE
    /\ nodes = <<>>
    /\ clip_min = Filled(0)
    /\ clip_max = Filled(height)
    /\ pc = "idle"
    /\ portal_index = 1
    /\ wall_index = 1
    /\ sprite_index = 1
    /\ frame = 0
    /\ hist = NoHist

\* Renderer::new but for the clip rows of the PortalTree: with
\* WallRenderer::new and PlaneRenderer::new.
RendererNewButBounds ==
    /\ RendererNewButRows
    /\ wall_bounds_min = Filled(0)
    /\ wall_bounds_max = Filled(height)
    /\ span_start = [y \in Rows |-> 0]

\* Renderer::new, with PortalTree::with_depth(4, ..).
RendererNew ==
    /\ RendererNewButBounds
    /\ portal_bounds_min = [d \in 1..InitialLayers |-> Filled(0)]
    /\ portal_bounds_max = [d \in 1..InitialLayers |-> Filled(height)]

\* The program before its first frame, seen from the renderer: no call outside
\* update is followed.
Init ==
    /\ RendererNew
    /\ canvas = <<>>
    /\ textures = <<>>
    /\ call = NoCall
    /\ key_states = KeyboardNew
    /\ input_hist = NoInput

\* PortalTree::reset: the node list is cleared and every layer is refilled.
reset_min(rows) == [d \in 1..Len(rows) |-> Filled(0)]
reset_max(rows) == [d \in 1..Len(rows) |-> Filled(height)]

\* Mutant of add_layers: no layer is added.
add_layers_none(rows, tree_depth, v) == rows
\* PortalTree::push_node: layers are added until row tree_depth exists (the
\* row of depth d is element d + 1), then the node is appended.
add_layers(rows, tree_depth, v) ==
    [d \in 1..Max(Len(rows), tree_depth + 1) |-> IF d <= Len(rows) THEN rows[d] ELSE Filled(v)]
\* Mutant of push_node: the node is put in front of the list.
push_node_front(ns, node) == <<node>> \o ns
push_node(ns, node) == Append(ns, node)

\* The root node pushed by Renderer::update.
RootNode(p) == PortalNode(0, p.sector_index, 0, width)

\* Renderer::update up to the traversal loop: state.update, portal_tree.reset,
\* sector_renderer.update (which touches only focal_height_ratios),
\* sprite_renderer.update (empty), push of the root node.
BeginUpdate(p) ==
    /\ pc = "idle"
    /\ frame < MaxFrames
    /\ camera' = p.camera
    /\ nodes' = push_node(<<>>, RootNode(p))
    /\ portal_bounds_min' = add_layers(reset_min(portal_bounds_min), 0, 0)
    /\ portal_bounds_max' = add_layers(reset_max(portal_bounds_max), 0, height)
    /\ portal_index' = 1
    /\ wall_index' = 1
    /\ sprite_index' = 1
    /\ pc' = "walls"
    /\ frame' = frame + 1
    /\ hist' = [hist EXCEPT !.op = "begin", !.out_of_bounds = {}, !.player = <<p>>, !.viewport = <<>>, !.written = {}, !.parent = <<0>>,
                            !.processed = <<>>, !.debug_assert = FALSE, !.unopened = FALSE]
    /\ UNCHANGED <<key_states, input_hist, canvas, textures, call, debug, width, height, world, pixels, wall_bounds_min, wall_bounds_max, span_start,
                   clip_min, clip_max>>

\* ------------------------------------------------------------------ walls
\* The node, sector and wall draw_sector is working on.
CurNode == nodes[portal_index]
CurSector == Worlds[world].sectors[CurNode.sector_index]
CurWall == CurSector.walls[wall_index]

\* Mutant of wall_column: the rows are clamped to the screen rather than to
\* the node's clip bounds.
wall_column_unclamped(cam, su, sector, lo, hi, x) ==
    [y_min |-> edge_row(cam, su.vs_a, su.vs_b, sector.ceiling, x, 0, height),
     y_max |-> edge_row(cam, su.vs_a, su.vs_b, sector.floor, x, 0, height)]

\* rasterise_wall, column x: the rows [y_min, y_max) drawn and recorded.  lo
\* and hi are the node's clip bounds in the column.
wall_column(cam, su, sector, lo, hi, x) ==
    [y_min |-> edge_row(cam, su.vs_a, su.vs_b, sector.ceiling, x, lo, hi),
     y_max |-> edge_row(cam, su.vs_a, su.vs_b, sector.floor, x, lo, hi)]

\* Mutant of portal_column: the edges are clamped to the screen rather than
\* to the parent's clip bounds.
portal_column_unclamped(cam, su, sector, next_sector, lo, hi, x) ==
    LET upper_y_min == edge_row(cam, su.vs_a, su.vs_b, sector.ceiling, x, 0, height)
        upper_y_max == Max(edge_row(cam, su.vs_a, su.vs_b, next_sector.ceiling, x, 0, height),
                           upper_y_min)
        lower_y_max == edge_row(cam, su.vs_a, su.vs_b, sector.floor, x, 0, height)
        lower_y_min == Min(edge_row(cam, su.vs_a, su.vs_b, next_sector.floor, x, 0, height),
                           lower_y_max)
    IN  [upper_y_min |-> upper_y_min,
         upper_y_max |-> upper_y_max,
         lower_y_min |-> Max(lower_y_min, upper_y_max),
         lower_y_max |-> Max(lower_y_max, upper_y_max)]

\* Mutant of portal_column: the upper band reaches down to the floor edge of
\* the wall, as if the wall had no opening.
portal_column_solid(cam, su, sector, next_sector, lo, hi, x) ==
    LET upper_y_min == edge_row(cam, su.vs_a, su.vs_b, sector.ceiling, x, lo, hi)
        upper_y_max == Max(edge_row(cam, su.vs_a, su.vs_b, sector.floor, x, lo, hi),
                           upper_y_min)
        lower_y_max == edge_row(cam, su.vs_a, su.vs_b, sector.floor, x, lo, hi)
        lower_y_min == Min(edge_row(cam, su.vs_a, su.vs_b, next_sector.floor, x, lo, hi),
                           lower_y_max)
    IN  [upper_y_min |-> upper_y_min,
         upper_y_max |-> upper_y_max,
         lower_y_min |-> Max(lower_y_min, upper_y_max),
         lower_y_max |-> Max(lower_y_max, upper_y_max)]

\* Mutant of portal_bands: the lower band is not kept below the upper one.
portal_bands_unordered(upper_top_y, upper_bottom_y, lower_top_y, lower_bottom_y, lo, hi) ==
    LET upper_y_min == clamp(upper_top_y, lo, hi)
        upper_y_max == Max(clamp(upper_bottom_y, lo, hi), upper_y_min)
        lower_y_max == clamp(lower_bottom_y, lo, hi)
        lower_y_min == Min(clamp(lower_top_y, lo, hi), lower_y_max)
    IN  [upper_y_min |-> upper_y_min,
         upper_y_max |-> upper_y_max,
         lower_y_min |-> lower_y_min,
         lower_y_max |-> lower_y_max]

\* One column of rasterise_portal_wall, from the rows (as usize) of the top
\* and bottom edges of the upper and the lower wall and the bounds read:
\* upper band [upper_y_min, upper_y_max), lower band [lower_y_min,
\* lower_y_max), opening [upper_y_max, lower_y_min).
portal_bands(upper_top_y, upper_bottom_y, lower_top_y, lower_bottom_y, lo, hi) ==
    LET upper_y_min == clamp(upper_top_y, lo, hi)
        upper_y_max == Max(clamp(upper_bottom_y, lo, hi), upper_y_min)
        lower_y_max == clamp(lower_bottom_y, lo, hi)
        lower_y_min == Min(clamp(lower_top_y, lo, hi), lower_y_max)
    IN  [upper_y_min |-> upper_y_min,
         upper_y_max |-> upper_y_max,
         lower_y_min |-> Max(lower_y_min, upper_y_max),
         lower_y_max |-> Max(lower_y_max, upper_y_max)]

\* lerp.top_y as usize, and the same for any wall edge.
edge_usize(cam, p, q, h, x) ==
    LET y == edge_y(cam, p, q, h, x) IN as_usize(y[1], y[2])

\* rasterise_portal_wall, column x: the upper wall spans the sector's ceiling
\* to the next sector's, the lower wall the next sector's floor to the
\* sector's.
portal_column(cam, su, sector, next_sector, lo, hi, x) ==
    portal_bands(edge_usize(cam, su.vs_a, su.vs_b, sector.ceiling, x),
                 edge_usize(cam, su.vs_a, su.vs_b, next_sector.ceiling, x),
                 edge_usize(cam, su.vs_a, su.vs_b, next_sector.floor, x),
                 edge_usize(cam, su.vs_a, su.vs_b, sector.floor, x), lo, hi)

\* rasterise_wall_span, column x: the alpha of the pixels it sets, the texel
\* of the column's mip level darkened.
wall_alpha(a, su, x) == darken_alpha(sample_alpha(a, wall_mip_level(su.vs_a, su.vs_b, x)))

\* The columns x_min..x_max of a drawn wall.
wall_columns(su) == IF su.drawn THEN su.x_min..(su.x_max - 1) ELSE {}

\* The pixels of the rows [y_min[x], y_max[x]) of the columns cols.
column_spans(cols, y_min, y_max) ==
    UNION {{<<x, y>> : y \in y_min[x]..(y_max[x] - 1)} : x \in cols}

\* draw_sector's loop moves to the next wall, or on to the planes.
NextWall ==
    IF wall_index < Len(CurSector.walls)
    THEN wall_index' = wall_index + 1 /\ pc' = "walls"
    ELSE wall_index' = wall_index /\ pc' = "planes"

\* WallRenderer::render for a wall without portal: draw_wall, rasterise_wall.
DrawWall ==
    /\ pc = "walls"
    /\ CurWall.portal = NoPortal
    /\ \E su \in {wall_setup(camera, CurNode, CurWall)} :
       \E d \in {CurNode.tree_depth + 1} :
       \E cols \in {wall_columns(su)} :
       \E col \in {[x \in cols |-> wall_column(camera, su, CurSector,
                                               portal_bounds_min[d][x], portal_bounds_max[d][x], x)]} :
       \E wr \in {column_spans(cols, [x \in cols |-> col[x].y_min], [x \in cols |-> col[x].y_max])} :
           /\ pixels' = [p \in Pixels |->
                           IF p \in wr
                           THEN <<"wall", CurNode.sector_index,
                                  wall_alpha(Worlds[world].texture_alpha.wall, su, p[1])>>
                           ELSE pixels[p]]
           /\ wall_bounds_min' = [x \in Columns |-> IF x \in cols THEN col[x].y_min ELSE wall_bounds_min[x]]
           /\ wall_bounds_max' = [x \in Columns |-> IF x \in cols THEN col[x].y_max ELSE wall_bounds_max[x]]
           /\ hist' = [hist EXCEPT !.op = "wall", !.written = wr \cap Pixels,
                          !.out_of_bounds = @ \cup (wr \ Pixels),
                          !.wall_frame = [x \in Columns |-> IF x \in cols THEN frame ELSE @[x]],
                          !.wall_node = [x \in Columns |-> IF x \in cols THEN portal_index ELSE @[x]]]
    /\ NextWall
    /\ UNCHANGED <<key_states, input_hist, canvas, textures, call, debug, width, height, world, camera, nodes, portal_bounds_min, portal_bounds_max,
                   span_start, clip_min, clip_max, portal_index, sprite_index, frame>>

\* WallRenderer::render for a portal wall: draw_portal_wall, which pushes the
\* child node, and rasterise_portal_wall, which fills the child's clip rows.
DrawPortalWall ==
    /\ pc = "walls"
    /\ CurWall.portal # NoPortal
    /\ \E su \in {wall_setup(camera, CurNode, CurWall)} :
       \E d \in {CurNode.tree_depth + 1} :
       \E next_sector \in {Worlds[world].sectors[CurWall.portal]} :
       \E cols \in {wall_columns(su)} :
       \E col \in {[x \in cols |-> portal_column(camera, su, CurSector, next_sector,
                                                 portal_bounds_min[d][x], portal_bounds_max[d][x], x)]} :
       \E wr_u \in {column_spans(cols, [x \in cols |-> col[x].upper_y_min],
                                  [x \in cols |-> col[x].upper_y_max])} :
       \E wr_l \in {column_spans(cols, [x \in cols |-> col[x].lower_y_min],
                                  [x \in cols |-> col[x].lower_y_max])} :
       \E rows_min \in {add_layers(portal_bounds_min, CurNode.tree_depth + 1, 0)} :
       \E rows_max \in {add_layers(portal_bounds_max, CurNode.tree_depth + 1, height)} :
           IF ~ su.drawn
           THEN /\ NextWall
                /\ hist' = [hist EXCEPT !.op = "portal_wall", !.written = {}]
                /\ UNCHANGED <<pixels, nodes, portal_bounds_min, portal_bounds_max,
                               wall_bounds_min, wall_bounds_max>>
           ELSE IF Len(nodes) >= MaxNodes
           THEN /\ pc' = "overflow"
                /\ hist' = [hist EXCEPT !.op = "overflow", !.written = {}]
                /\ UNCHANGED <<pixels, nodes, portal_bounds_min, portal_bounds_max,
                               wall_bounds_min, wall_bounds_max, wall_index>>
           ELSE /\ NextWall
                /\ nodes' = push_node(nodes, PortalNode(CurNode.tree_depth + 1, CurWall.portal,
                                                        su.x_min, su.x_max))
                /\ pixels' = [p \in Pixels |->
                                IF p \in wr_u
                                THEN <<"upper", CurNode.sector_index,
                                       wall_alpha(Worlds[world].texture_alpha.upper, su, p[1])>>
                                ELSE IF p \in wr_l
                                THEN <<"lower", CurNode.sector_index,
                                       wall_alpha(Worlds[world].texture_alpha.lower, su, p[1])>>
                                ELSE pixels[p]]
                /\ wall_bounds_min' = [x \in Columns |-> IF x \in cols THEN col[x].upper_y_min
                                                         ELSE wall_bounds_min[x]]
                /\ wall_bounds_max' = [x \in Columns |-> IF x \in cols THEN col[x].lower_y_max
                                                         ELSE wall_bounds_max[x]]
                /\ portal_bounds_min' = [rows_min EXCEPT ![d + 1] =
                        [x \in Columns |-> IF x \in cols THEN col[x].upper_y_max ELSE @[x]]]
                /\ portal_bounds_max' = [rows_max EXCEPT ![d + 1] =
                        [x \in Columns |-> IF x \in cols THEN col[x].lower_y_min ELSE @[x]]]
                /\ hist' = [hist EXCEPT !.op = "portal_wall", !.written = (wr_u \cup wr_l) \cap Pixels,
                               !.out_of_bounds = @ \cup ((wr_u \cup wr_l) \ Pixels),
                               !.parent = Append(@, portal_index),
                               !.wall_frame = [x \in Columns |-> IF x \in cols THEN frame ELSE @[x]],
                               !.wall_node = [x \in Columns |-> IF x \in cols THEN portal_index
                                                                 ELSE @[x]]]
    /\ UNCHANGED <<key_states, input_hist, canvas, textures, call, debug, width, height, world, camera, span_start, clip_min, clip_max,
                   portal_index, sprite_index, frame>>

\* ----------------------------------------------------------------- planes
\* rasterise_plane_span's depth test for row y of a plane at camera-space
\* height height_offset: depth = focal_height_ratios[y] * height_offset with
\* focal_height_ratios[y] = focal_height / (y - half_height - pitch_shear), 0 on
\* the horizon row; the span is skipped when depth < NEAR or depth > FAR.
plane_row_drawn(cam, height_offset, y) ==
    LET n == height * height_offset
        d == 2 * y - height - cam.pitch_tan * height
    IN  /\ d # 0
        /\ Sign(n) * Sign(d) > 0
        /\ IF d > 0 THEN n <= FAR * d ELSE n >= FAR * d

\* The mip level rasterise_plane_span picks for row y:
\* mip_level(normalise_depth(depth), focal_height_ratio.abs()), for a row that
\* passes the depth test.
plane_mip_level(cam, height_offset, y) ==
    LET n == height * height_offset
        d == 2 * y - height - cam.pitch_tan * height
        abs_n == IF n < 0 THEN -n ELSE n
        abs_d == IF d < 0 THEN -d ELSE d
    IN  mip_level(abs_n, abs_d, height, abs_d)

\* Colour::lightness(lighting).a.  The function is called by
\* rasterise_plane_span but is not part of colour.rs; as the specification
\* has the plane rasteriser darken the texel, it is taken to keep the alpha
\* as BGRA8::darken and BGRA8::lighten do.
lightness_alpha(a) == a

\* rasterise_plane_span, row y: the alpha of the pixels it sets.
plane_alpha(a, cam, height_offset, y) ==
    lightness_alpha(sample_alpha(a, plane_mip_level(cam, height_offset, y)))

\* rasterise_plane_span(y, x_min, x_max): the pixels it sets.
plane_span(cam, height_offset, y, x_min, x_max) ==
    IF x_max <= x_min \/ ~ plane_row_drawn(cam, height_offset, y) THEN {}
    ELSE {<<x, y>> : x \in x_min..(x_max - 1)}

\* The rows a, a + 1, .., b and a, a - 1, .., b in the order a loop visits them.
Ascending(a, b) == [i \in 1..Max(b - a + 1, 0) |-> a + i - 1]
Descending(a, b) == [i \in 1..Max(a - b + 1, 0) |-> a - i + 1]

\* The calls rasterise_plane_span(y, span_start[y], x_max) for the rows of the
\* sequence rows, as triples <<y, x_min, x_max>>.
span_calls(rows, ss, x_max) == [i \in 1..Len(rows) |-> <<rows[i], ss[rows[i]], x_max>>]

\* Mutant of plane_column: a row that opens does not record its first column.
plane_column_no_start(cam, height_offset, lo, hi, x, y_min, y_max, st) ==
    LET opened == (lo[x]..(y_min - 1)) \cup (y_max..(hi[x] - 1))
        ss     == st.span_start
        y_min1 == Min(y_min, lo[x])
        y_max1 == Max(y_max, hi[x])
        closed == (y_min1..(lo[x] - 1)) \cup (hi[x]..(y_max1 - 1))
        rows   == Ascending(y_min1, lo[x] - 1) \o Descending(y_max1 - 1, hi[x])
    IN  IF st.panic \/ \E y \in opened \cup closed : y >= height
        THEN [st EXCEPT !.panic = TRUE]
        ELSE [span_start   |-> ss,
              written      |-> st.written \cup
                               UNION {plane_span(cam, height_offset, y, ss[y], x) : y \in closed},
              spans        |-> st.spans \o span_calls(rows, ss, x),
              span_rows    |-> st.span_rows \cup opened,
              unopened     |-> st.unopened \cup (closed \ (st.span_rows \cup opened)),
              debug_assert |-> st.debug_assert \/ \E y \in closed : ss[y] > x,
              panic        |-> FALSE]

\* One column x of draw_plane's loop.  st = [span_start, written, spans,
\* span_rows, unopened, debug_assert, panic]; y_min, y_max are the open rows
\* on entry; on exit they are lo[x], hi[x].  The rows below y_min and from
\* y_max on open at x; then the rows from y_min up to lo[x] and from y_max - 1
\* down to hi[x] close, each with a call of rasterise_plane_span (spans: the
\* calls in order; unopened: the rows closed that the call never opened).
\* span_start and focal_height_ratios are indexed by the row with a checked
\* index: a row beyond the screen panics.
plane_column(cam, height_offset, lo, hi, x, y_min, y_max, st) ==
    LET opened == (lo[x]..(y_min - 1)) \cup (y_max..(hi[x] - 1))
        ss     == [y \in Rows |-> IF y \in opened THEN x ELSE st.span_start[y]]
        y_min1 == Min(y_min, lo[x])
        y_max1 == Max(y_max, hi[x])
        closed == (y_min1..(lo[x] - 1)) \cup (hi[x]..(y_max1 - 1))
        rows   == Ascending(y_min1, lo[x] - 1) \o Descending(y_max1 - 1, hi[x])
    IN  IF st.panic \/ \E y \in opened \cup closed : y >= height
        THEN [st EXCEPT !.panic = TRUE]
        ELSE [span_start   |-> ss,
              written      |-> st.written \cup
                               UNION {plane_span(cam, height_offset, y, ss[y], x) : y \in closed},
              spans        |-> st.spans \o span_calls(rows, ss, x),
              span_rows    |-> st.span_rows \cup opened,
              unopened     |-> st.unopened \cup (closed \ (st.span_rows \cup opened)),
              debug_assert |-> st.debug_assert \/ \E y \in closed : ss[y] > x,
              panic        |-> FALSE]

\* draw_plane's loop over the columns x..x_max-1 of the node that starts at
\* column x_min: the open rows are [lo[x_min], lo[x_min]) before the first
\* column and [lo[x-1], hi[x-1]) after column x-1.  (The singleton set names
\* the state after column x.)
RECURSIVE plane_columns(_, _, _, _, _, _, _, _)
plane_columns(cam, height_offset, lo, hi, x_min, x, x_max, st) ==
    IF x >= x_max THEN st
    ELSE CHOOSE r \in {plane_columns(cam, height_offset, lo, hi, x_min, x + 1, x_max, s) :
                        s \in {plane_column(cam, height_offset, lo, hi, x,
                                            IF x = x_min THEN lo[x] ELSE lo[x - 1],
                                            IF x = x_min THEN lo[x] ELSE hi[x - 1], st)}} : TRUE

\* PlaneRenderer::draw_plane for a node with x_min < width: the column loop,
\* then the spans still open at portal.x_max.
draw_plane(cam, portal, lo, hi, height_offset, ss) ==
    LET st0  == [span_start |-> ss, written |-> {}, spans |-> <<>>, span_rows |-> {},
                 unopened |-> {}, debug_assert |-> FALSE, panic |-> FALSE]
        st   == plane_columns(cam, height_offset, lo, hi, portal.x_min, portal.x_min,
                              portal.x_max, st0)
        last == portal.x_max - 1
        open == IF portal.x_min >= portal.x_max THEN {}
                ELSE lo[last]..(hi[last] - 1)
    IN  IF st.panic \/ \E y \in open : y >= height
        THEN [st EXCEPT !.panic = TRUE]
        ELSE [span_start   |-> st.span_start,
              written      |-> st.written \cup
                               UNION {plane_span(cam, height_offset, y, st.span_start[y],
                                                 portal.x_max) : y \in open},
              spans        |-> st.spans \o
                               span_calls(IF portal.x_min >= portal.x_max THEN <<>>
                                          ELSE Ascending(lo[last], hi[last] - 1),
                                          st.span_start, portal.x_max),
              span_rows    |-> st.span_rows,
              unopened     |-> st.unopened \cup (open \ st.span_rows),
              debug_assert |-> st.debug_assert \/ \E y \in open : st.span_start[y] > portal.x_max,
              panic        |-> FALSE]

\* Renderer::update's loop moves to the next node, or on to the sprites.
NextNode ==
    /\ portal_index' = portal_index + 1
    /\ wall_index' = 1
    /\ pc' = IF portal_index + 1 <= Len(nodes) THEN "walls" ELSE "sprites"

\* The rest of draw_sector: ceiling, then floor.  Both calls begin by reading
\* y_bounds.0[portal.x_min], which is out of bounds for a node at x_min =
\* width: the slice index panics.  A panic of the ceiling is modelled before
\* its pixels are kept: the frame is lost with the panic.
DrawPlanes ==
    /\ pc = "planes"
    /\ IF CurNode.x_min >= width
       THEN /\ pc' = "panic"
            /\ hist' = [hist EXCEPT !.op = "panic", !.written = {}]
            /\ UNCHANGED <<pixels, span_start, portal_index, wall_index>>
       ELSE \E d \in {CurNode.tree_depth + 1} :
            \E c \in {draw_plane(camera, CurNode, portal_bounds_min[d], wall_bounds_min,
                                 camera.z - CurSector.ceiling, span_start)} :
            \E f \in {draw_plane(camera, CurNode, wall_bounds_max, portal_bounds_max[d],
                                 camera.z - CurSector.floor, c.span_start)} :
              IF c.panic \/ f.panic
              THEN /\ pc' = "panic"
                   /\ hist' = [hist EXCEPT !.op = "panic", !.written = {}]
                   /\ UNCHANGED <<pixels, span_start, portal_index, wall_index>>
              ELSE
                /\ span_start' = f.span_start
                /\ pixels' = [p \in Pixels |->
                                IF p \in f.written
                                THEN <<"floor", CurNode.sector_index,
                                       plane_alpha(Worlds[world].texture_alpha.floor, camera,
                                                   camera.z - CurSector.floor, p[2])>>
                                ELSE IF p \in c.written
                                THEN <<"ceiling", CurNode.sector_index,
                                       plane_alpha(Worlds[world].texture_alpha.ceiling, camera,
                                                   camera.z - CurSector.ceiling, p[2])>>
                                ELSE pixels[p]]
                /\ hist' = [hist EXCEPT !.op = "planes", !.written = (c.written \cup f.written) \cap Pixels,
                               !.out_of_bounds = @ \cup ((c.written \cup f.written) \ Pixels),
                               !.processed = Append(@, portal_index),
                               !.debug_assert = c.debug_assert \/ f.debug_assert,
                               !.unopened = c.unopened \cup f.unopened # {},
                               !.mip = [p \in c.written \cup f.written |->
                                    IF p \in f.written
                                    THEN plane_mip_level(camera, camera.z - CurSector.floor, p[2])
                                    ELSE plane_mip_level(camera, camera.z - CurSector.ceiling, p[2])],
                               !.span_frame = [y \in Rows |->
                                    IF y \in c.span_rows \cup f.span_rows THEN frame ELSE @[y]]]
                /\ NextNode
    /\ UNCHANGED <<key_states, input_hist, canvas, textures, call, debug, width, height, world, camera, nodes, portal_bounds_min, portal_bounds_max,
                   wall_bounds_min, wall_bounds_max, clip_min, clip_max, sprite_index, frame>>

\* ---------------------------------------------------------------- sprites
CurSprite == Worlds[world].sprites[sprite_index]

\* draw_sprite up to the portal loop.  The billboard spans vs.x -+ width / 2
\* at depth vs.y (widths are even); top_left is projected at the sprite's
\* height, bottom_right at height 0.  drawn = FALSE is an early return.
sprite_setup(cam, sprite) ==
    LET vs    == transform_view(cam, sprite.position)
        vs_a  == <<vs[1] - sprite.width \div 2, vs[2]>>
        vs_b  == <<vs[1] + sprite.width \div 2, vs[2]>>
        shear == cam.pitch_tan * height + height
        top_n == (cam.z - sprite.height) * height + shear * vs[2]
        bot_n == cam.z * height + shear * vs[2]
        seen  == /\ overlaps_frustum(vs_a, vs_b)
                 /\ ~ (bot_n < 0 \/ top_n > height * 2 * vs[2])
    IN  [drawn |-> seen, depth |-> vs[2],
         x_min |-> IF seen THEN clamp(x_as_usize(project_x(vs_a)), 0, width) ELSE 0,
         x_max |-> IF seen THEN clamp(x_as_usize(project_x(vs_b)), 0, width) ELSE 0,
         top_y |-> IF seen THEN as_usize(top_n, 2 * vs[2]) ELSE 0,
         bottom_y |-> IF seen THEN as_usize(bot_n, 2 * vs[2]) ELSE 0]

\* The portal loop of draw_sprite over the nodes ns: st = [clip_min,
\* clip_max, portals_x_min, portals_x_max, clip_cols].  (The singleton set
\* names the state after the node.)
RECURSIVE sprite_portals(_, _, _, _, _, _)
sprite_portals(ns, rows_min, rows_max, sprite, su, st) ==
    IF ns = <<>> THEN st
    ELSE LET portal == Head(ns)
             overlap_x_min == Max(su.x_min, portal.x_min)
             overlap_x_max == Min(su.x_max, portal.x_max)
             over == {x \in Columns : overlap_x_min <= x /\ x < overlap_x_max}
             d == portal.tree_depth + 1
         IN  IF portal.sector_index # sprite.sector_index
             THEN sprite_portals(Tail(ns), rows_min, rows_max, sprite, su, st)
             ELSE CHOOSE r \in {sprite_portals(Tail(ns), rows_min, rows_max, sprite, su, s) : s \in {
                    [clip_min |-> [x \in Columns |-> IF x \in over THEN rows_min[d][x]
                                                     ELSE st.clip_min[x]],
                     clip_max |-> [x \in Columns |-> IF x \in over THEN rows_max[d][x]
                                                     ELSE st.clip_max[x]],
                     portals_x_min |-> Min(st.portals_x_min, overlap_x_min),
                     portals_x_max |-> Max(st.portals_x_max, overlap_x_max),
                     clip_cols |-> st.clip_cols \cup over]}} : TRUE

\* rasterise_sprite: the alpha of the texels it samples, at the mip level of
\* the sprite's depth, darkened.
sprite_alpha(a, su) == darken_alpha(sample_alpha(a, mip_level(su.depth, 1, 0, 1)))

\* rasterise_sprite: the pixels of columns x_min..x_max-1, each clamped to the
\* clip bounds of its column; a colour of alpha 0 is not written.
rasterise_sprite(su, a, cmin, cmax, x_min, x_max) ==
    IF a = 0 THEN {}
    ELSE UNION {{<<x, y>> : y \in clamp(su.top_y, cmin[x], cmax[x])
                                  ..(clamp(su.bottom_y, cmin[x], cmax[x]) - 1)} :
                   x \in x_min..(x_max - 1)}

\* SpriteRenderer::draw_sprite for the next sprite of update's loop.
DrawSprite ==
    /\ pc = "sprites"
    /\ sprite_index <= Len(Worlds[world].sprites)
    /\ \E su \in {sprite_setup(camera, CurSprite)} :
       \E st \in {sprite_portals(nodes, portal_bounds_min, portal_bounds_max, CurSprite, su,
                                [clip_min |-> clip_min, clip_max |-> clip_max,
                                 portals_x_min |-> width, portals_x_max |-> 0,
                                 clip_cols |-> {}])} :
       \E wr \in {IF su.drawn /\ st.portals_x_min < st.portals_x_max
                 THEN rasterise_sprite(su, sprite_alpha(Worlds[world].texture_alpha.sprite, su),
                                       st.clip_min, st.clip_max,
                                       st.portals_x_min, st.portals_x_max)
                 ELSE {}} :
           /\ clip_min' = IF su.drawn THEN st.clip_min ELSE clip_min
           /\ clip_max' = IF su.drawn THEN st.clip_max ELSE clip_max
           /\ pixels' = [p \in Pixels |->
                           IF p \in wr
                           THEN <<"sprite", sprite_index,
                                  sprite_alpha(Worlds[world].texture_alpha.sprite, su)>>
                           ELSE pixels[p]]
           /\ pc' \in IF wr \subseteq Pixels THEN {pc} ELSE {pc, "panic"}
           /\ hist' = [hist EXCEPT !.op = "sprite", !.written = wr \cap Pixels,
                          !.out_of_bounds = @ \cup (wr \ Pixels),
                          !.clip_frame = [x \in Columns |->
                              IF su.drawn /\ x \in st.clip_cols THEN frame ELSE @[x]]]
    /\ sprite_index' = sprite_index + 1
    /\ UNCHANGED <<key_states, input_hist, canvas, textures, call, debug, width, height, world, camera, nodes, portal_bounds_min, portal_bounds_max,
                   wall_bounds_min, wall_bounds_max, span_start, portal_index,
                   wall_index, frame>>

\* Renderer::debug_draw_portals, one node: the pixels of its outline.  A node
\* without columns is skipped; the sides are the rows [min, max) of the first
\* and the last column, top and bottom the rows min and max - 1 of every
\* column whose bounds differ.  The bounds are the row of the node's depth.
portal_outline(node, lo, hi) ==
    IF node.x_min = node.x_max THEN {}
    ELSE LET left_x == node.x_min
             right_x == saturating_sub(node.x_max, 1)
         IN  {<<left_x, y>> : y \in lo[left_x]..(hi[left_x] - 1)}
             \cup {<<right_x, y>> : y \in lo[right_x]..(hi[right_x] - 1)}
             \cup UNION {IF lo[x] = hi[x] THEN {}
                         ELSE {<<x, lo[x]>>, <<x, saturating_sub(hi[x], 1)>>} :
                            x \in node.x_min..(node.x_max - 1)}

\* Renderer::debug_draw_portals: for each pixel the last node of the list
\* whose outline holds it (0: none).
debug_draw_portals(ns, bounds_min, bounds_max) ==
    [p \in UNION {portal_outline(ns[i], bounds_min[ns[i].tree_depth + 1],
                                 bounds_max[ns[i].tree_depth + 1]) : i \in 1..Len(ns)} |->
        CHOOSE i \in 1..Len(ns) :
            /\ p \in portal_outline(ns[i], bounds_min[ns[i].tree_depth + 1],
                                     bounds_max[ns[i].tree_depth + 1])
            /\ \A j \in (i + 1)..Len(ns) :
                  p \notin portal_outline(ns[j], bounds_min[ns[j].tree_depth + 1],
                                          bounds_max[ns[j].tree_depth + 1])]

\* Renderer::update after the sprite loop: the portal outlines when
\* RendererState.debug is set; update returns.
EndUpdate ==
    /\ pc = "sprites"
    /\ sprite_index > Len(Worlds[world].sprites)
    /\ \E outline \in {IF debug THEN debug_draw_portals(nodes, portal_bounds_min, portal_bounds_max)
                        ELSE <<>>} :
          /\ pixels' = [p \in Pixels |->
                          IF p \in DOMAIN outline
                          THEN <<"outline", nodes[outline[p]].tree_depth, 255>>
                          ELSE pixels[p]]
          /\ pc' \in IF DOMAIN outline \subseteq Pixels THEN {"idle"} ELSE {"idle", "panic"}
          /\ hist' = [hist EXCEPT !.op = "end", !.written = DOMAIN outline \cap Pixels,
                                  !.out_of_bounds = @ \cup (DOMAIN outline \ Pixels),
                                  !.last_player = hist.player, !.last_pixels = <<pixels'>>,
                                  !.last_debug = <<debug>>,
                                  !.same_input = /\ hist.last_player = hist.player
                                                 /\ hist.last_debug = <<debug>>
                                                 /\ hist.last_pixels # <<>>
                                                 /\ DOMAIN hist.last_pixels[1] = Pixels,
                                  !.same_pixels = hist.last_pixels = <<pixels'>>]
    /\ UNCHANGED <<key_states, input_hist, canvas, textures, call, debug, width, height, world, camera, nodes, portal_bounds_min, portal_bounds_max,
                   wall_bounds_min, wall_bounds_max, span_start, clip_min, clip_max,
                   portal_index, wall_index, sprite_index, frame>>

\* Vec::resize(new_len, value): the vector is truncated, or extended by value.
resize(f, new_len, value) == [i \in 0..(new_len - 1) |-> IF i \in DOMAIN f THEN f[i] ELSE value]

\* Mutant of same_viewport: the early return is never taken.
same_viewport_never(screen_width, screen_height) == FALSE

\* Renderer::set_viewport's test for the early return.
same_viewport(screen_width, screen_height) == screen_width = width /\ screen_height = height

\* Renderer::set_viewport: nothing for the current dimensions; otherwise
\* RendererState::set_viewport (a new framebuffer; the focal lengths follow
\* from its size), PortalTree::resize_bounds and the set_viewport of the wall,
\* plane and sprite renderers, which resize their buffers.
SetViewport(screen_width, screen_height) ==
    /\ pc = "idle"
    /\ IF same_viewport(screen_width, screen_height)
       THEN UNCHANGED <<width, height, pixels, portal_bounds_min, portal_bounds_max,
                        wall_bounds_min, wall_bounds_max, span_start, clip_min, clip_max>>
            /\ hist' = [hist EXCEPT !.op = "set_viewport", !.written = {},
                                    !.viewport = <<screen_width, screen_height>>]
       ELSE /\ width' = screen_width
            /\ height' = screen_height
            /\ pixels' = [p \in (0..(screen_width - 1)) \X (0..(screen_height - 1)) |-> Blank]
            /\ portal_bounds_min' = [d \in 1..Len(portal_bounds_min) |->
                                        resize(portal_bounds_min[d], screen_width, 0)]
            /\ portal_bounds_max' = [d \in 1..Len(portal_bounds_max) |->
                                        resize(portal_bounds_max[d], screen_width, screen_height)]
            /\ wall_bounds_min' = resize(wall_bounds_min, screen_width, 0)
            /\ wall_bounds_max' = resize(wall_bounds_max, screen_width, screen_height)
            /\ span_start' = resize(span_start, screen_height, 0)
            /\ clip_min' = resize(clip_min, screen_width, 0)
            /\ clip_max' = resize(clip_max, screen_width, screen_height)
            /\ hist' = [hist EXCEPT !.op = "set_viewport", !.written = {},
                                    !.viewport = <<screen_width, screen_height>>,
                                    !.wall_frame = resize(@, screen_width, 0),
                                    !.wall_node = resize(@, screen_width, 0),
                                    !.clip_frame = resize(@, screen_width, 0),
                                    !.span_frame = resize(@, screen_height, 0)]
    /\ UNCHANGED <<key_states, input_hist, canvas, textures, call, debug, world, camera, nodes, pc, portal_index, wall_index, sprite_index, frame>>

\* RendererState.debug is switched through Renderer::state_mut (the
\* application's F3 key).
SetDebug ==
    /\ pc = "idle"
    /\ DebugKey(world)
    /\ debug' = ~ debug
    /\ UNCHANGED <<key_states, input_hist, canvas, textures, call, width, height, world, camera, pixels, nodes,
                   portal_bounds_min, portal_bounds_max, wall_bounds_min, wall_bounds_max,
                   span_start, clip_min, clip_max, pc, portal_index, wall_index,
                   sprite_index, frame, hist>>

Next ==
    \/ \E p \in Players(world) : BeginUpdate(p)
    \/ SetDebug
    \/ \E s \in Sizes(world) : SetViewport(s, s)
    \/ DrawWall
    \/ DrawPortalWall
    \/ DrawPlanes
    \/ DrawSprite
    \/ EndUpdate

Spec == Init /\ [][Next]_vars

\* ------------------------------------------------- colours and framebuffer
\* The channel values and alphas the colours below are drawn from (u8).
Shades == {100, 255}
Alphas == {0, 128, 255}

\* BGRA8::new.
BGRA8(red, green, blue, alpha) == [b |-> blue, g |-> green, r |-> red, a |-> alpha]

Colours == {BGRA8(r, 255 - r, 37, a) : r \in Shades, a \in Alphas}

\* x >> 8 of a usize.
shr8(x) == x \div 256

\* BGRA8::blend: self weighted by its own alpha, other by 255 - that alpha;
\* the result is opaque.
blend(self, other) ==
    LET alpha == self.a
        beta == 255 - alpha
    IN  [b |-> shr8(self.b * alpha + other.b * beta),
         g |-> shr8(self.g * alpha + other.g * beta),
         r |-> shr8(self.r * alpha + other.r * beta),
         a |-> 255]

\* Framebuffer: pixels in row-major order (from index 0).
Framebuffer(w, h, px) == [width |-> w, height |-> h, pixels |-> px]

\* Framebuffer::blend_pixel: the stored pixel is the receiver of blend, the
\* passed colour its argument.
blend_pixel(fb, x, y, colour) ==
    LET index == (y * fb.width) + x
    IN  [fb EXCEPT !.pixels[index] = blend(fb.pixels[index], colour)]

\* A 2 x 1 framebuffer holding any two colours.
InitBlend ==
    /\ RendererNew
    /\ world = 1
    /\ canvas \in {Framebuffer(2, 1, [i \in 0..1 |-> IF i = 0 THEN c ELSE d]) : c, d \in Colours}
    /\ textures = <<>>
    /\ call = NoCall
    /\ key_states = KeyboardNew
    /\ input_hist = NoInput

BlendPixel(x, y, colour) ==
    /\ call.n < MaxCalls
    /\ x < canvas.width /\ y < canvas.height
    /\ canvas' = blend_pixel(canvas, x, y, colour)
    /\ call' = [n |-> call.n + 1, op |-> "blend_pixel", args |-> <<x, y, colour>>,
                before |-> <<canvas.pixels[(y * canvas.width) + x]>>, result |-> <<>>]
    /\ UNCHANGED <<key_states, input_hist, renderer_vars, textures>>

NextBlend == \E x \in 0..1, colour \in Colours : BlendPixel(x, 0, colour)

SpecBlend == InitBlend /\ [][NextBlend]_vars

\* ---------------------------------------------------------------- textures
\* textures.rs: the number of mip levels a Texture stores.
TEXTURE_MIP_LEVELS == 4

\* BGRA8::default.
DefaultColour == [b |-> 0, g |-> 0, r |-> 0, a |-> 0]

\* A decoded PNG frame: RGBA bytes, four per pixel, rows from the top (pixel i
\* is element i + 1).  found is false for a path that cannot be opened.
Image(w, h, rgba) == [found |-> TRUE, width |-> w, height |-> h, rgba |-> rgba]
Missing == [found |-> FALSE]

\* The pixels the images below are made of, as <<r, g, b, a>>.
Texels == {<<255, 0, 37, 0>>, <<100, 155, 37, 128>>, <<255, 0, 37, 255>>}

\* The images loaded: up to 4 x 2 pixels, the first pixel of one colour and the
\* others of another; and a path that does not exist.
ImageWidths == {1, 2, 3, 4}
ImageHeights == {1, 2}
Files ==
    {Image(w, h, [i \in 1..(w * h) |-> IF i = 1 THEN c ELSE d]) :
        w \in ImageWidths, h \in ImageHeights, c \in Texels, d \in Texels} \cup {Missing}

\* Bitmap, after load_png's swap of bytes 0 and 2 of every pixel; read as
\* BGRA8 the bytes are b, g, r, a.
swap_0_2(px) == <<px[3], px[2], px[1], px[4]>>
as_BGRA8(bytes) == [b |-> bytes[1], g |-> bytes[2], r |-> bytes[3], a |-> bytes[4]]
Bitmap(w, h, px) == [width |-> w, height |-> h, pixels |-> px]

MipLevel(w, h, offset) == [width |-> w, height |-> h, offset |-> offset]

\* Texture::calculate_mip_levels: level i (element i + 1) has the dimensions
\* of the bitmap halved i times and starts where level i - 1 ends.
RECURSIVE mip_levels_from(_, _, _, _)
mip_levels_from(i, mip_width, mip_height, offset) ==
    IF i = TEXTURE_MIP_LEVELS THEN <<>>
    ELSE <<MipLevel(mip_width, mip_height, offset)>> \o
         mip_levels_from(i + 1, mip_width \div 2, mip_height \div 2,
                         offset + mip_width * mip_height)
calculate_mip_levels(bitmap) == mip_levels_from(0, bitmap.width, bitmap.height, 0)


\* sample_clamp / sample_wrap on the slice of buffer that starts at read_index.
sample_clamp(buffer, read_index, src_width, src_height, x, y) ==
    buffer[read_index + Min(y, src_height - 1) * src_width + Min(x, src_width - 1)]
sample_wrap(buffer, read_index, src_width, src_height, x, y) ==
    buffer[read_index + (y % src_height) * src_width + (x % src_width)]

\* The nine samples of downscale_3x3_box_filter for destination (dst_x, dst_y).
box_samples(buffer, read_index, src_width, src_height, dst_x, dst_y) ==
    LET src_x == dst_x * 2
        src_y == dst_y * 2
        xs == <<saturating_sub(src_x, 1), src_x, src_x + 1>>
        ys == <<saturating_sub(src_y, 1), src_y, src_y + 1>>
    IN  [k \in 1..9 |-> sample_clamp(buffer, read_index, src_width, src_height,
                                     xs[((k - 1) % 3) + 1], ys[((k - 1) \div 3) + 1])]

RECURSIVE SumOver(_, _)
SumOver(f, n) == IF n = 0 THEN 0 ELSE f[n] + SumOver(f, n - 1)

\* The pixel downscale_3x3_box_filter writes: the plain mean of the nine
\* samples per channel, alpha 0xFF.
box_filter(samples) ==
    BGRA8(SumOver([k \in 1..9 |-> samples[k].r], 9) \div 9,
          SumOver([k \in 1..9 |-> samples[k].g], 9) \div 9,
          SumOver([k \in 1..9 |-> samples[k].b], 9) \div 9,
          255)

\* downscale_3x3_box_filter, with src the slice of buffer from read_index and
\* dst the slice from write_index.
downscale_3x3_box_filter(buffer, read_index, src_width, src_height, write_index) ==
    LET dst_width == src_width \div 2
        dst_height == src_height \div 2
    IN  [j \in DOMAIN buffer |->
            IF write_index <= j /\ j < write_index + dst_width * dst_height
            THEN box_filter(box_samples(buffer, read_index, src_width, src_height,
                                        (j - write_index) % dst_width,
                                        (j - write_index) \div dst_width))
            ELSE buffer[j]]

\* Texture::generate_mip_maps from level i on.
RECURSIVE generate_mip_maps(_, _, _)
generate_mip_maps(levels, buffer, i) ==
    IF i >= TEXTURE_MIP_LEVELS THEN buffer
    ELSE generate_mip_maps(levels,
                           downscale_3x3_box_filter(buffer, levels[i].offset, levels[i].width,
                                                    levels[i].height, levels[i + 1].offset),
                           i + 1)

\* Texture::from_bitmap: a buffer of default colours for all levels, level 0
\* copied from the bitmap, the other levels generated.
from_bitmap(bitmap) ==
    LET levels == calculate_mip_levels(bitmap)
        last == levels[TEXTURE_MIP_LEVELS]
        buffer_size == last.offset + last.width * last.height
        filled == [j \in 0..(buffer_size - 1) |->
                      IF j < Len(bitmap.pixels) THEN bitmap.pixels[j + 1] ELSE DefaultColour]
    IN  [levels |-> levels, pixels |-> generate_mip_maps(levels, filled, 1)]

\* Textures::load_png: Err for a file that cannot be opened; otherwise the
\* frame becomes a Bitmap and its Texture is pushed, whatever its dimensions.
load_png(list, file) ==
    IF ~file.found THEN [textures |-> list, result |-> <<"Err", "Failed to open file">>]
    ELSE LET bitmap == Bitmap(file.width, file.height,
                              [i \in 1..Len(file.rgba) |-> as_BGRA8(swap_0_2(file.rgba[i]))])
         IN  [textures |-> Append(list, from_bitmap(bitmap)),
              result |-> <<"Ok", Len(list)>>]

\* Textures::new.
InitTextures ==
    /\ RendererNew
    /\ world = 1
    /\ canvas = <<>>
    /\ textures = <<>>
    /\ call = NoCall
    /\ key_states = KeyboardNew
    /\ input_hist = NoInput

LoadPng(file) ==
    /\ call.n < MaxCalls
    /\ \E out \in {load_png(textures, file)} :
          /\ textures' = out.textures
          /\ call' = [n |-> call.n + 1, op |-> "load_png", args |-> <<file>>,
                      before |-> <<Len(textures)>>, result |-> out.result]
    /\ UNCHANGED <<key_states, input_hist, renderer_vars, canvas>>

NextTextures == \E file \in Files : LoadPng(file)

SpecTextures == InitTextures /\ [][NextTextures]_vars

\* ------------------------------------------- portal wall columns on their own
\* The rows the interpolated edges of a portal wall take in a column (as
\* usize; they may lie beyond the screen), and the clip bounds read.
EdgeRows == {0, 2, 5, 9}
ReadBounds == {<<lo, hi>> \in {0, 3, Width} \X {0, 3, Width} : lo <= hi}

\* A renderer whose root clip row holds any bounds with min <= max.
InitBands ==
    /\ RendererNewButBounds
    /\ world = 1
    /\ \E b \in ReadBounds :
          /\ portal_bounds_min = [d \in 1..InitialLayers |-> Filled(IF d = 1 THEN b[1] ELSE 0)]
          /\ portal_bounds_max = [d \in 1..InitialLayers |-> Filled(IF d = 1 THEN b[2] ELSE height)]
    /\ canvas = <<>>
    /\ textures = <<>>
    /\ call = NoCall
    /\ key_states = KeyboardNew
    /\ input_hist = NoInput

\* One turn of rasterise_portal_wall's loop, for a wall of the root node whose
\* edges take the given rows in column x: both bands are drawn, the wall span
\* is recorded and the opening is written to the clip row of depth 1.
RasterisePortalColumn(x, upper_top_y, upper_bottom_y, lower_top_y, lower_bottom_y) ==
    /\ call.n < MaxCalls
    /\ \E b \in {portal_bands(upper_top_y, upper_bottom_y, lower_top_y, lower_bottom_y,
                               portal_bounds_min[1][x], portal_bounds_max[1][x])} :
          /\ pixels' = [p \in Pixels |->
                          IF p[1] = x /\ b.upper_y_min <= p[2] /\ p[2] < b.upper_y_max
                          THEN <<"upper", 1, 255>>
                          ELSE IF p[1] = x /\ b.lower_y_min <= p[2] /\ p[2] < b.lower_y_max
                          THEN <<"lower", 1, 255>>
                          ELSE pixels[p]]
          /\ wall_bounds_min' = [wall_bounds_min EXCEPT ![x] = b.upper_y_min]
          /\ wall_bounds_max' = [wall_bounds_max EXCEPT ![x] = b.lower_y_max]
          /\ portal_bounds_min' = [portal_bounds_min EXCEPT ![2][x] = b.upper_y_max]
          /\ portal_bounds_max' = [portal_bounds_max EXCEPT ![2][x] = b.lower_y_min]
          /\ call' = [n |-> call.n + 1, op |-> "rasterise_portal_wall", args |-> <<x>>,
                      before |-> <<>>, result |-> <<b>>]
    /\ UNCHANGED <<key_states, input_hist, canvas, textures, debug, width, height, world, camera, nodes, span_start,
                   clip_min, clip_max, pc, portal_index, wall_index, sprite_index, frame, hist>>

NextBands ==
    \E x \in {Width - 1} :
    \E upper_top_y \in EdgeRows, upper_bottom_y \in EdgeRows,
       lower_top_y \in EdgeRows, lower_bottom_y \in EdgeRows :
        RasterisePortalColumn(x, upper_top_y, upper_bottom_y, lower_top_y, lower_bottom_y)

SpecBands == InitBands /\ [][NextBands]_vars

\* ------------------------------------- culling and near clipping on their own
\* consts.rs: 1 / NEAR.  Depths are counted in units of NEAR below.
NEAR_INVERSE == 100000

\* The coordinates the endpoints of the segments are drawn from.
CullCoords == -2..2

\* draw_wall / draw_portal_wall, "Near plane clipping": the depths (in units
\* of NEAR) of the two endpoints after it, which endpoint was moved, and the
\* denominator of its parameter t.
near_clip(vs_a, vs_b) ==
    IF lt_NEAR(vs_a[2])
    THEN [clipped |-> "a", denominator |-> (vs_b[2] - vs_a[2]) * NEAR_INVERSE,
          a_z |-> 1, b_z |-> vs_b[2] * NEAR_INVERSE]
    ELSE IF lt_NEAR(vs_b[2])
    THEN [clipped |-> "b", denominator |-> (vs_a[2] - vs_b[2]) * NEAR_INVERSE,
          a_z |-> vs_a[2] * NEAR_INVERSE, b_z |-> 1]
    ELSE [clipped |-> "none", denominator |-> 1,
          a_z |-> vs_a[2] * NEAR_INVERSE, b_z |-> vs_b[2] * NEAR_INVERSE]

\* draw_wall up to the projection for the wall a-b: transformation, frustum
\* culling, near plane clipping.  The result holds whether the wall passed
\* the culling and, if so, the depths project_screen_space is called with.
CullWall(a, b) ==
    /\ call.n = 0
    /\ \E vs_a \in {transform_view(camera, a)} :
       \E vs_b \in {transform_view(camera, b)} :
          call' = [n |-> call.n + 1, op |-> "draw_wall", args |-> <<vs_a, vs_b>>, before |-> <<>>,
                   result |-> IF overlaps_frustum(vs_a, vs_b)
                              THEN <<TRUE, near_clip(vs_a, vs_b)>> ELSE <<FALSE>>]
    /\ UNCHANGED <<key_states, input_hist, renderer_vars, canvas, textures>>

\* draw_sprite up to the projection for a sprite at position: the billboard
\* vs -+ width / 2 is culled; there is no near plane clipping.
CullSprite(position, sprite_width) ==
    /\ call.n = 0
    /\ \E vs \in {transform_view(camera, position)} :
       \E vs_a \in {<<vs[1] - sprite_width \div 2, vs[2]>>} :
       \E vs_b \in {<<vs[1] + sprite_width \div 2, vs[2]>>} :
          call' = [n |-> call.n + 1, op |-> "draw_sprite", args |-> <<vs_a, vs_b>>, before |-> <<>>,
                   result |-> IF overlaps_frustum(vs_a, vs_b)
                              THEN <<TRUE, [clipped |-> "none", denominator |-> 1,
                                            a_z |-> vs_a[2] * NEAR_INVERSE,
                                            b_z |-> vs_b[2] * NEAR_INVERSE]>>
                              ELSE <<FALSE>>]
    /\ UNCHANGED <<key_states, input_hist, renderer_vars, canvas, textures>>

\* A new renderer (camera at the origin, looking north); one call is followed.
InitCull ==
    /\ RendererNew
    /\ world = 1
    /\ canvas = <<>>
    /\ textures = <<>>
    /\ call = NoCall
    /\ key_states = KeyboardNew
    /\ input_hist = NoInput

NextCull ==
    \/ \E a \in CullCoords \X CullCoords, b \in CullCoords \X CullCoords : CullWall(a, b)
    \/ \E position \in CullCoords \X CullCoords : CullSprite(position, 2)

SpecCull == InitCull /\ [][NextCull]_vars

\* ------------------------------------------------------ draw_plane on its own
\* The columns of the bounds that vary, and the rows the bounds take.
SpanColumns == 3
BoundRows == {0, 3, 5, Width}
\* What span_start holds before the call: any column, as earlier calls left it.
SpanStarts == {[y \in 0..(Width - 1) |-> Width - 1], [y \in 0..(Width - 1) |-> y % SpanColumns]}

\* A renderer whose root clip row (the low bounds) and wall_bounds_min (the
\* high bounds) hold any bounds with low <= high in the first SpanColumns
\* columns, and whose span_start holds any columns.
InitSpans ==
    /\ RendererNewButRows
    /\ world = 1
    /\ \E b \in [0..(SpanColumns - 1) -> {r \in BoundRows \X BoundRows : r[1] <= r[2]}] :
          /\ portal_bounds_min = [d \in 1..InitialLayers |->
                [x \in Columns |-> IF d = 1 /\ x < SpanColumns THEN b[x][1] ELSE 0]]
          /\ wall_bounds_min = [x \in Columns |-> IF x < SpanColumns THEN b[x][2] ELSE height]
    /\ portal_bounds_max = [d \in 1..InitialLayers |-> Filled(height)]
    /\ wall_bounds_max = Filled(height)
    /\ span_start \in SpanStarts
    /\ canvas = <<>>
    /\ textures = <<>>
    /\ call = NoCall
    /\ key_states = KeyboardNew
    /\ input_hist = NoInput

\* draw_sector's first draw_plane call (the ceiling) for a node of depth 0:
\* y_bounds = (min_portal_bounds, min_wall_bounds).  One call is followed.
DrawPlane(portal, height_offset) ==
    /\ call.n = 0
    /\ portal.x_min < width
    /\ \E c \in {draw_plane(camera, portal, portal_bounds_min[1], wall_bounds_min,
                             height_offset, span_start)} :
          /\ ~ c.panic
          /\ span_start' = c.span_start
          /\ pixels' = [p \in Pixels |-> IF p \in c.written THEN <<"ceiling", 1, 255>>
                                          ELSE pixels[p]]
          /\ call' = [n |-> call.n + 1, op |-> "draw_plane", args |-> <<portal, height_offset>>,
                      before |-> <<span_start>>, result |-> <<c.spans>>]
    /\ UNCHANGED <<key_states, input_hist, canvas, textures, debug, width, height, world, camera, nodes,
                   portal_bounds_min, portal_bounds_max, wall_bounds_min, wall_bounds_max,
                   clip_min, clip_max, pc, portal_index, wall_index, sprite_index, frame, hist>>

NextSpans ==
    \E x_min \in 0..SpanColumns, x_max \in 0..SpanColumns, height_offset \in {-2} :
        x_min <= x_max /\ DrawPlane(PortalNode(0, 1, x_min, x_max), height_offset)

SpecSpans == InitSpans /\ [][NextSpans]_vars

\* ------------------------------------------------------------- the keyboard
\* Keyboard::is_key_pressed.
is_key_pressed(keycode) == key_states[keycode].pressed

\* Keyboard::is_key_held.
is_key_held(keycode) == key_states[keycode].held

\* Input::handle_event for KeyboardEvent::KeyPressed(keycode).
KeyPressed(keycode) ==
    /\ key_states' = [key_states EXCEPT ![keycode] = [pressed |-> ~ @.held, held |-> TRUE]]
    /\ input_hist' = [op |-> "key_pressed", key |-> keycode,
                      fresh |-> IF key_states[keycode].held THEN input_hist.fresh
                                ELSE input_hist.fresh \cup {keycode}]
    /\ UNCHANGED <<renderer_vars, canvas, textures, call>>

\* Input::handle_event for KeyboardEvent::KeyReleased(keycode).
KeyReleased(keycode) ==
    /\ key_states' = [key_states EXCEPT ![keycode].held = FALSE]
    /\ input_hist' = [input_hist EXCEPT !.op = "key_released", !.key = keycode]
    /\ UNCHANGED <<renderer_vars, canvas, textures, call>>

\* Input::update, as far as the keyboard goes.
InputUpdate ==
    /\ key_states' = [k \in Keys |-> [key_states[k] EXCEPT !.pressed = FALSE]]
    /\ input_hist' = [op |-> "update", key |-> "none", fresh |-> {}]
    /\ UNCHANGED <<renderer_vars, canvas, textures, call>>

\* Input::new(), beside a new renderer.
InitInput ==
    /\ RendererNew
    /\ world = 1
    /\ canvas = <<>>
    /\ textures = <<>>
    /\ call = NoCall
    /\ key_states = KeyboardNew
    /\ input_hist = NoInput

NextInput ==
    \/ \E keycode \in Keys : KeyPressed(keycode)
    \/ \E keycode \in Keys : KeyReleased(keycode)
    \/ InputUpdate

SpecInput == InitInput /\ [][NextInput]_vars

\* ------------------------------------------------ contains_point on its own
\* Coordinates of the vertices and of the points tested.
PolyCoords == 0..2
PointCoords == -1..3

\* The polygons tested: the triangles with vertices on the grid PolyCoords
\* that are not degenerate, in both windings.
Triangles ==
    {t \in (PolyCoords \X PolyCoords) \X (PolyCoords \X PolyCoords) \X (PolyCoords \X PolyCoords) :
        cross(Sub(t[2], t[1]), Sub(t[3], t[1])) # 0}

\* polygon.contains_point(point); the result is recorded.
ContainsPoint(polygon, point) ==
    /\ call.n = 0
    /\ call' = [n |-> call.n + 1, op |-> "contains_point", args |-> <<polygon, point>>,
                before |-> <<>>, result |-> <<contains_point(polygon, point)>>]
    /\ UNCHANGED <<key_states, input_hist, renderer_vars, canvas, textures>>

\* One call is followed, beside a new renderer.
InitPolygon ==
    /\ RendererNew
    /\ world = 1
    /\ canvas = <<>>
    /\ textures = <<>>
    /\ call = NoCall
    /\ key_states = KeyboardNew
    /\ input_hist = NoInput

NextPolygon ==
    \E polygon \in Triangles, point \in PointCoords \X PointCoords : ContainsPoint(polygon, point)

SpecPolygon == InitPolygon /\ [][NextPolygon]_vars

\* ------------------------------------------------------------------ claims
\* The columns [x_min, x_max) of a node.
NodeColumns(n) == {x \in Columns : n.x_min <= x /\ x < n.x_max}

\* C1: clip bounds narrow down the portal tree.  For every node pushed by
\* draw_portal_wall (every node but the root) at depth d + 1 and every column
\* x of its range, at every point of the frame from its creation on,
\* portal_min[d][x] <= portal_min[d+1][x] <= portal_max[d+1][x] <= portal_max[d][x].
C1_ClipBoundsNarrow ==
    \A i \in 2..Len(nodes) :
        \A x \in NodeColumns(nodes[i]) :
            LET d == nodes[i].tree_depth
            IN  /\ portal_bounds_min[d][x] <= portal_bounds_min[d + 1][x]
                /\ portal_bounds_min[d + 1][x] <= portal_bounds_max[d + 1][x]
                /\ portal_bounds_max[d + 1][x] <= portal_bounds_max[d][x]

\* A finished frame with a node of depth 2 that has, in some column, a
\* non-empty opening inside its parent's, the parent's strictly inside the
\* root's.
C1_Witness ==
    /\ pc = "idle"
    /\ \E i \in 2..Len(nodes) : \E x \in NodeColumns(nodes[i]) :
          /\ nodes[i].tree_depth = 2
          /\ portal_bounds_min[1][x] < portal_bounds_min[2][x]
          /\ portal_bounds_min[2][x] <= portal_bounds_min[3][x]
          /\ portal_bounds_min[3][x] < portal_bounds_max[3][x]
          /\ portal_bounds_max[3][x] <= portal_bounds_max[2][x]
          /\ portal_bounds_max[2][x] < portal_bounds_max[1][x]

\* C2: when draw_sector has drawn all walls of a node's sector and is about
\* to draw its planes, for every column x of the node's range
\* portal_min[d][x] <= wall_min[x] <= wall_max[x] <= portal_max[d][x], d the
\* node's depth; also in columns no wall of the sector covered.
C2_WallBoundsWithinClipBounds ==
    pc = "planes" =>
        \A x \in NodeColumns(CurNode) :
            LET d == CurNode.tree_depth + 1
            IN  /\ portal_bounds_min[d][x] <= wall_bounds_min[x]
                /\ wall_bounds_min[x] <= wall_bounds_max[x]
                /\ wall_bounds_max[x] <= portal_bounds_max[d][x]

\* C3: every pixel (x, y) set by the wall rasteriser (solid wall, upper or
\* lower band of a portal wall) while a node of depth d is processed lies in
\* the node's columns and has portal_min[d][x] <= y < portal_max[d][x].
C3_WallPixelsInsideWindow ==
    hist.op \in {"wall", "portal_wall"} =>
        \A p \in hist.written :
            LET d == CurNode.tree_depth + 1
            IN  /\ CurNode.x_min <= p[1] /\ p[1] < CurNode.x_max
                /\ portal_bounds_min[d][p[1]] <= p[2]
                /\ p[2] < portal_bounds_max[d][p[1]]

\* A solid wall drawn through a portal: pixels were set in a node below the
\* root whose window is narrower than the screen.
C3_Witness ==
    /\ hist.op = "wall"
    /\ hist.written # {}
    /\ CurNode.tree_depth >= 1
    /\ CurNode.x_min > 0
    /\ \E x \in NodeColumns(CurNode) : portal_bounds_min[CurNode.tree_depth + 1][x] > 0

\* The sprite the last DrawSprite step handled.
LastSprite == Worlds[world].sprites[sprite_index - 1]

\* C4: every pixel (x, y) draw_sprite sets for a sprite lies inside a portal
\* window of the sprite's own sector: some node n of that sector has
\* n.x_min <= x < n.x_max and portal_min[n.tree_depth][x] <= y <
\* portal_max[n.tree_depth][x]; no pixel falls between two windows.
C4_SpritePixelsInsideWindow ==
    hist.op = "sprite" =>
        \A p \in hist.written :
            \E i \in 1..Len(nodes) :
                /\ nodes[i].sector_index = LastSprite.sector_index
                /\ nodes[i].x_min <= p[1] /\ p[1] < nodes[i].x_max
                /\ portal_bounds_min[nodes[i].tree_depth + 1][p[1]] <= p[2]
                /\ p[2] < portal_bounds_max[nodes[i].tree_depth + 1][p[1]]

\* C5: a sprite whose projected columns [sprite_x_min, sprite_x_max) meet the
\* columns of no node of its sector is dropped: draw_sprite sets no pixel.
C5_HiddenSpriteDropped ==
    (/\ hist.op = "sprite"
     /\ \A i \in 1..Len(nodes) :
           nodes[i].sector_index = LastSprite.sector_index =>
               NodeColumns(nodes[i]) \cap
                   {x \in Columns : /\ sprite_setup(camera, LastSprite).x_min <= x
                                    /\ x < sprite_setup(camera, LastSprite).x_max} = {})
    => hist.written = {}

\* C6: update is a function of its inputs alone.  Two consecutive updates
\* with the same player, the same viewport and the same debug flag (the
\* world, its textures and sprites never change) end with identical
\* framebuffers, whatever the renderer held before.
C6_SameInputSameFrame ==
    (pc = "idle" /\ hist.same_input) => hist.same_pixels

\* C7: breadth-first traversal by insertion order.  The node list starts
\* with the root (depth 0, the player's sector, columns [0, width)); the nodes
\* draw_sector has finished are 1, 2, 3, .. in this order, each once, and are
\* all the nodes once the traversal loop has ended; tree_depth never
\* decreases along the list.
C7_BreadthFirst ==
    (frame >= 1 /\ hist.op # "set_viewport") =>
        /\ nodes[1] = PortalNode(0, hist.player[1].sector_index, 0, width)
        /\ hist.processed = [i \in 1..Len(hist.processed) |-> i]
        /\ pc \in {"walls", "planes"} => Len(hist.processed) = portal_index - 1
        /\ pc \in {"sprites", "idle"} => Len(hist.processed) = Len(nodes)
        /\ \A i \in 1..Len(nodes) : \A j \in i..Len(nodes) :
               nodes[i].tree_depth <= nodes[j].tree_depth

\* A finished traversal of a tree with two nodes of depth 1 that each have a
\* child: depth-first order would put a node of depth 2 between them.
C7_Witness ==
    /\ pc = "sprites"
    /\ Len(hist.processed) = Len(nodes)
    /\ \E i, j, k, l \in 1..Len(nodes) :
          /\ i # j /\ nodes[i].tree_depth = 1 /\ nodes[j].tree_depth = 1
          /\ hist.parent[k] = i /\ hist.parent[l] = j

\* The nodes on the path from node i up to the root, i excluded.
RECURSIVE Ancestors(_)
Ancestors(i) == IF hist.parent[i] = 0 THEN {}
                ELSE {hist.parent[i]} \cup Ancestors(hist.parent[i])

\* Node i shows the same sector through the same columns with the same clip
\* bounds as node j.
SameView(i, j) ==
    /\ nodes[i].sector_index = nodes[j].sector_index
    /\ nodes[i].x_min = nodes[j].x_min
    /\ nodes[i].x_max = nodes[j].x_max
    /\ \A x \in NodeColumns(nodes[i]) :
          /\ portal_bounds_min[nodes[i].tree_depth + 1][x] = portal_bounds_min[nodes[j].tree_depth + 1][x]
          /\ portal_bounds_max[nodes[i].tree_depth + 1][x] = portal_bounds_max[nodes[j].tree_depth + 1][x]

\* C8: update terminates: the traversal reaches the end of the node list and
\* the list and the clip layers do not grow without bound, also when the
\* portal graph has cycles.  Finite form: within a frame (camera and world
\* fixed) the nodes pushed below a node are a function of its sector, its
\* columns and its clip bounds in them, so a traversal that ends never pushes
\* a node that repeats all three of one of its ancestors.
C8_TraversalEnds ==
    \A i \in 1..Len(nodes) : \A j \in Ancestors(i) : ~ SameView(i, j)

\* C9: two distinct nodes of the same tree_depth have disjoint column ranges
\* [x_min, x_max).
C9_SameDepthDisjoint ==
    \A i \in 1..Len(nodes) : \A j \in 1..Len(nodes) :
        (i # j /\ nodes[i].tree_depth = nodes[j].tree_depth)
            => NodeColumns(nodes[i]) \cap NodeColumns(nodes[j]) = {}

\* C10: when update has reset the renderer and is about to draw the first
\* sector, the node list holds nothing but the new root, the clip bounds of
\* depth 0 are (0, height) in every column, and no entry of wall_min/wall_max,
\* clip_min/clip_max or span_start is one written during an earlier frame.
C10_ScratchReinitialised ==
    hist.op = "begin" =>
        /\ Len(nodes) = 1
        /\ \A x \in Columns : portal_bounds_min[1][x] = 0 /\ portal_bounds_max[1][x] = height
        /\ \A x \in Columns : hist.wall_frame[x] = 0 /\ hist.clip_frame[x] = 0
        /\ \A y \in Rows : hist.span_frame[y] = 0

\* C11: Renderer::set_viewport(w, h) with w and h the current framebuffer
\* width and height changes nothing: the framebuffer pixels, the dimensions
\* (and with them the focal lengths), the portal clip bounds, the wall bounds,
\* the sprite clip bounds and the row buffer span_start all stay as they were.
C11_SameViewportNoChange ==
    [][(hist'.op = "set_viewport" /\ hist'.viewport = <<width, height>>)
         => UNCHANGED <<width, height, pixels, portal_bounds_min, portal_bounds_max,
                        wall_bounds_min, wall_bounds_max, span_start, clip_min, clip_max,
                        nodes, camera>>]_vars

\* set_viewport was called with the current dimensions on a renderer that
\* holds a drawn frame and clip bounds narrowed by a portal.
C11_Witness ==
    /\ hist.op = "set_viewport"
    /\ hist.viewport = <<width, height>>
    /\ \E p \in Pixels : pixels[p] # Blank
    /\ \E x \in Columns : portal_bounds_min[2][x] > 0
    /\ \E x \in Columns : wall_bounds_min[x] > 0

\* C12: every framebuffer pixel written by the wall or the plane rasteriser
\* has alpha 255, whatever the texture holds (level-0 texels of alpha < 255
\* included); every pixel written by the sprite rasteriser has the alpha of
\* the texel it was sampled from.
C12_PixelAlpha ==
    /\ hist.op \in {"wall", "portal_wall", "planes"} =>
           \A p \in hist.written : pixels[p][3] = 255
    /\ hist.op = "sprite" =>
           \A p \in hist.written :
               pixels[p][3] = sample_alpha(Worlds[world].texture_alpha.sprite,
                                           mip_level(sprite_setup(camera, LastSprite).depth, 1, 0, 1))

\* The wall of the current sector with index i faces away from the camera:
\* it passes frustum culling and, seen from the camera, its vertex a does not
\* lie left of its vertex b (the projected top_a.x >= top_b.x).
FacesAway(i) ==
    LET vs_a == transform_view(camera, CurSector.walls[i].a)
        vs_b == transform_view(camera, CurSector.walls[i].b)
    IN  overlaps_frustum(vs_a, vs_b) /\ cross(vs_a, vs_b) >= 0

\* C13: a back-facing wall, solid or portal, has no effect on the frame: no
\* framebuffer pixel is written, no entry of wall_min/wall_max and no clip
\* bound changes, and no PortalNode is appended.
C13_BackFacingNoEffect ==
    [][(pc = "walls" /\ FacesAway(wall_index))
         => UNCHANGED <<pixels, wall_bounds_min, wall_bounds_max, portal_bounds_min,
                        portal_bounds_max, clip_min, clip_max, nodes>>]_vars

\* The wall the last DrawWall / DrawPortalWall step handled.
LastWallIndex == IF pc = "planes" THEN wall_index ELSE wall_index - 1

\* The last step handled a back-facing portal wall of a sector seen through
\* a portal (the reverse side of the portal the camera looks through).
C13_Witness ==
    /\ hist.op = "portal_wall"
    /\ pc \in {"walls", "planes"}
    /\ CurNode.tree_depth >= 1
    /\ CurSector.walls[LastWallIndex].portal # NoPortal
    /\ FacesAway(LastWallIndex)

\* C14: for a portal wall whose neighbour sector has the floor height and the
\* ceiling height of the current sector, in every column x of the clamped
\* range the upper and the lower band are empty, so no pixel is written, and
\* the child window is the whole wall extent:
\* portal_min[d+1][x] = wall_min[x] and portal_max[d+1][x] = wall_max[x].
C14_SameHeightsFullOpening ==
    (hist.op = "portal_wall" /\ pc \in {"walls", "planes"}) =>
        LET wall == CurSector.walls[LastWallIndex]
            next_sector == Worlds[world].sectors[wall.portal]
            su == wall_setup(camera, CurNode, wall)
            d  == CurNode.tree_depth + 1
        IN  (next_sector.floor = CurSector.floor /\ next_sector.ceiling = CurSector.ceiling) =>
                /\ hist.written = {}
                /\ \A x \in wall_columns(su) :
                      /\ portal_bounds_min[d + 1][x] = wall_bounds_min[x]
                      /\ portal_bounds_max[d + 1][x] = wall_bounds_max[x]

\* A portal wall between sectors of equal heights was drawn over some columns
\* inside a window narrower than the screen, and its wall extent is not empty.
C14_Witness ==
    /\ hist.op = "portal_wall"
    /\ pc \in {"walls", "planes"}
    /\ LET wall == CurSector.walls[LastWallIndex]
           next_sector == Worlds[world].sectors[wall.portal]
           su == wall_setup(camera, CurNode, wall)
           d  == CurNode.tree_depth + 1
       IN  /\ next_sector.floor = CurSector.floor /\ next_sector.ceiling = CurSector.ceiling
           /\ \E x \in wall_columns(su) :
                 /\ portal_bounds_min[d][x] > 0
                 /\ portal_bounds_min[d + 1][x] < portal_bounds_max[d + 1][x]


\* C15: blend_pixel uses the source alpha and keeps the destination alpha.
\* After blend_pixel(x, y, colour), with dst the pixel stored at (x, y) before
\* the call and a the alpha of colour, every colour channel of the stored
\* pixel is (src * a + dst * (255 - a)) >> 8 and its alpha is the alpha of dst.
C15_BlendSourceAlpha ==
    call.op = "blend_pixel" =>
        LET src == call.args[3]
            dst == call.before[1]
            out == canvas.pixels[(call.args[2] * canvas.width) + call.args[1]]
            a == src.a
        IN  /\ out.b = shr8(src.b * a + dst.b * (255 - a))
            /\ out.g = shr8(src.g * a + dst.g * (255 - a))
            /\ out.r = shr8(src.r * a + dst.r * (255 - a))
            /\ out.a = dst.a


\* The nine samples of the claimed filter: wrap addressing around (2x, 2y).
wrap_samples(buffer, read_index, src_width, src_height, dst_x, dst_y) ==
    [k \in 1..9 |-> sample_wrap(buffer, read_index, src_width, src_height,
                                2 * dst_x + ((k - 1) % 3) - 1 + src_width,
                                2 * dst_y + ((k - 1) \div 3) - 1 + src_height)]

\* C16: mip levels are alpha-weighted 3x3 box filters with wrap addressing.
\* In every loaded texture, every pixel (x, y) of every level k > 0 is the
\* alpha-weighted mean, per colour channel, of the nine pixels of level k - 1
\* at ((2x + dx) mod src_width, (2y + dy) mod src_height), dx, dy in
\* {-1, 0, 1}, samples of alpha 0 not counting; when all nine have alpha 0 the
\* pixel keeps the value the buffer was created with.
C16_MipWrapAlphaWeighted ==
    \A t \in 1..Len(textures) : \A k \in 2..TEXTURE_MIP_LEVELS :
        LET src == textures[t].levels[k - 1]
            dst == textures[t].levels[k]
        IN  \A x \in 0..(dst.width - 1), y \in 0..(dst.height - 1) :
                LET s == wrap_samples(textures[t].pixels, src.offset, src.width, src.height, x, y)
                    weight == SumOver([i \in 1..9 |-> s[i].a], 9)
                    out == textures[t].pixels[dst.offset + y * dst.width + x]
                IN  IF weight = 0 THEN out = DefaultColour
                    ELSE /\ out.r = SumOver([i \in 1..9 |-> s[i].r * s[i].a], 9) \div weight
                         /\ out.g = SumOver([i \in 1..9 |-> s[i].g * s[i].a], 9) \div weight
                         /\ out.b = SumOver([i \in 1..9 |-> s[i].b * s[i].a], 9) \div weight


\* n is a power of two (and so not zero).
RECURSIVE is_power_of_two(_)
is_power_of_two(n) == n = 1 \/ (n > 1 /\ n % 2 = 0 /\ is_power_of_two(n \div 2))

\* C17: textures that are not a power of two are rejected.  load_png of an
\* image whose width or height is no power of two returns an error and adds
\* no Texture; and every MipLevel of every loaded texture has a width and a
\* height that are powers of two, zero excluded.
C17_PowerOfTwoOnly ==
    /\ call.op = "load_png" /\ call.args[1].found
            /\ ~(is_power_of_two(call.args[1].width) /\ is_power_of_two(call.args[1].height))
         => call.result[1] = "Err" /\ Len(textures) = call.before[1]
    /\ \A t \in 1..Len(textures) : \A k \in 1..TEXTURE_MIP_LEVELS :
          /\ is_power_of_two(textures[t].levels[k].width)
          /\ is_power_of_two(textures[t].levels[k].height)


\* C18: unchecked pixel writes stay inside the framebuffer.  Whatever
\* set_viewport and update calls came before, every set_pixel_unchecked(x, y)
\* an update makes (walls, planes, sprites, debug outline) has x < width and
\* y < height.
C18_UncheckedWritesInBounds == hist.out_of_bounds = {}


\* The depth of row y of a plane at camera-space height height_offset, as
\* <<numerator, denominator>> (both positive for a row that is drawn).
plane_depth(cam, height_offset, y) ==
    LET n == height * height_offset
        d == 2 * y - height - cam.pitch_tan * height
    IN  <<IF n < 0 THEN -n ELSE n, IF d < 0 THEN -d ELSE d>>

\* The node whose planes the last step drew, and the camera-space height of
\* the plane that pixel p of the step belongs to.
LastPlaneSector == Worlds[world].sectors[nodes[portal_index - 1].sector_index]
LastPlaneHeight(p) ==
    IF pixels[p][1] = "floor" THEN camera.z - LastPlaneSector.floor
    ELSE camera.z - LastPlaneSector.ceiling

\* C19: the mip level of a plane grows with depth.  Among the pixels one
\* draw of a sector's planes sets, for any two of the same plane: in the
\* same row they have the same mip level, and the one in the row that is not
\* deeper has the level that is not larger; no level exceeds MIP_LEVELS - 1.
C19_PlaneMipMonotone ==
    hist.op = "planes" =>
        \A p \in DOMAIN hist.mip :
            /\ hist.mip[p] <= MIP_LEVELS - 1
            /\ \A q \in DOMAIN hist.mip :
                  pixels[p][1] = pixels[q][1] =>
                      LET dp == plane_depth(camera, LastPlaneHeight(p), p[2])
                          dq == plane_depth(camera, LastPlaneHeight(q), q[2])
                      IN  /\ p[2] = q[2] => hist.mip[p] = hist.mip[q]
                          /\ dp[1] * dq[2] <= dq[1] * dp[2] => hist.mip[p] <= hist.mip[q]

\* A floor was drawn whose rows use the first and the last mip level.
C19_Witness ==
    /\ hist.op = "planes"
    /\ \E p, q \in DOMAIN hist.mip :
          /\ pixels[p][1] = "floor" /\ pixels[q][1] = "floor"
          /\ hist.mip[p] = 0 /\ hist.mip[q] = MIP_LEVELS - 1


\* C20: the bands of a portal wall column are ordered.  After a column of
\* rasterise_portal_wall, whatever rows the edges had and whatever bounds
\* min <= max were read: upper_y_min <= upper_y_max <= lower_y_min <=
\* lower_y_max; the wall span recorded for the column is [upper_y_min,
\* lower_y_max) and the window written for the child is [upper_y_max,
\* lower_y_min).
C20_PortalBandsOrdered ==
    call.op = "rasterise_portal_wall" =>
        LET x == call.args[1]
            b == call.result[1]
        IN  /\ b.upper_y_min <= b.upper_y_max
            /\ b.upper_y_max <= b.lower_y_min
            /\ b.lower_y_min <= b.lower_y_max
            /\ wall_bounds_min[x] = b.upper_y_min /\ wall_bounds_max[x] = b.lower_y_max
            /\ portal_bounds_min[2][x] = b.upper_y_max
            /\ portal_bounds_max[2][x] = b.lower_y_min
            /\ portal_bounds_min[2][x] <= portal_bounds_max[2][x]

\* A column whose lower wall lies above its upper wall was rasterised: the
\* lower band was moved down to the end of the upper band, and the opening
\* is empty.
C20_Witness ==
    /\ call.op = "rasterise_portal_wall"
    /\ call.result[1].upper_y_min < call.result[1].upper_y_max
    /\ call.result[1].lower_y_min = call.result[1].upper_y_max
    /\ call.result[1].lower_y_max = call.result[1].upper_y_max
    /\ \E p \in Pixels : p[1] = call.args[1] /\ pixels[p][1] = "upper"


\* The cells of the spans rasterise_plane_span was called with: span i covers
\* the columns [x_min, x_max) of its row.
SpanCells(spans, i) == {<<x, spans[i][1]>> : x \in spans[i][2]..(spans[i][3] - 1)}

\* C21: span construction is exact.  For bounds with lo[x] <= hi[x] in every
\* column of the node, the spans draw_plane passes to rasterise_plane_span
\* cover exactly the cells (x, y) with x_min <= x < x_max and lo[x] <= y <
\* hi[x]: each such cell lies in exactly one span and no span holds another
\* cell, whatever span_start held before.
C21_SpansExact ==
    call.op = "draw_plane" =>
        LET portal == call.args[1]
            spans == call.result[1]
            cells == {p \in (portal.x_min..(portal.x_max - 1)) \X Rows :
                         portal_bounds_min[1][p[1]] <= p[2] /\ p[2] < wall_bounds_min[p[1]]}
        IN  /\ \A p \in cells :
                  Cardinality({i \in 1..Len(spans) : p \in SpanCells(spans, i)}) = 1
            /\ \A i \in 1..Len(spans) : SpanCells(spans, i) \subseteq cells

\* A call over three columns whose bounds move down from one column to the
\* next (rows open and close in the same column), with a span_start that held
\* columns to the right of the spans drawn.
C21_Witness ==
    /\ call.op = "draw_plane"
    /\ call.args[1].x_min = 0 /\ call.args[1].x_max = SpanColumns
    /\ portal_bounds_min[1][0] < portal_bounds_min[1][1]
    /\ wall_bounds_min[0] < wall_bounds_min[1]
    /\ portal_bounds_min[1][1] < wall_bounds_min[0]
    /\ wall_bounds_min[2] < wall_bounds_min[1]
    /\ \A y \in Rows : call.before[1][y] = Width - 1
    /\ \E i \in 1..Len(call.result[1]) :
          call.result[1][i][2] = 1 /\ call.result[1][i][3] = 2


\* C22: every call of rasterise_plane_span that draw_plane makes during
\* update (ceiling and floor of every node, every frame) has x_min <= x_max:
\* the debug assertion on the span width never fires, and no span is passed
\* for a row the draw_plane call did not open.
C22_SpanWidthNotNegative ==
    hist.op = "planes" => (~ hist.debug_assert /\ ~ hist.unopened)


\* C23: write before read of the wall bounds.  When draw_sector has drawn the
\* walls of a node's sector and draw_plane is about to read wall_min[x] and
\* wall_max[x] for the columns x of the node's range, each of these entries
\* was written by a wall of this sector while this node was processed: not
\* for an earlier node, in an earlier frame or by the constructor.
C23_WallBoundsWrittenBeforeRead ==
    pc = "planes" =>
        \A x \in NodeColumns(CurNode) :
            hist.wall_frame[x] = frame /\ hist.wall_node[x] = portal_index


\* The wall of the current sector with index i passes frustum culling, faces
\* the camera, and its projected range [top_a.x, top_b.x) does not meet the
\* columns [x_min, x_max) of the current node: top_b.x <= x_min or
\* top_a.x >= x_max.
MissesWindow(i) ==
    LET vs_a == transform_view(camera, CurSector.walls[i].a)
        vs_b == transform_view(camera, CurSector.walls[i].b)
        xa   == wall_screen_x(vs_a, vs_b)
        xb   == wall_screen_x(vs_b, vs_a)
    IN  /\ overlaps_frustum(vs_a, vs_b)
        /\ ~ x_ge(xa, xb)
        /\ (~ x_gt(xb, CurNode.x_min) \/ ~ x_lt(xa, CurNode.x_max))

\* C24: a wall, solid or portal, whose projected column range [top_a.x,
\* top_b.x) has no column in common with the window [x_min, x_max) of the
\* current node (top_a.x = x_max and top_b.x = x_min included) returns without
\* any effect: no pixel, no entry of wall_min/wall_max and no clip bound is
\* written, and no PortalNode is appended.
C24_WallOutsideWindowNoEffect ==
    [][(pc = "walls" /\ MissesWindow(wall_index))
         => UNCHANGED <<pixels, wall_bounds_min, wall_bounds_max, portal_bounds_min,
                        portal_bounds_max, clip_min, clip_max, nodes>>]_vars


\* C25: of a wall segment or sprite segment that passes the frustum culling,
\* at most one endpoint has a view-space y < NEAR; so after the near plane
\* clipping both endpoints have y >= NEAR, the parameter t of the clipping
\* has a denominator that is not zero, and the depth z of every projection is
\* positive.
C25_NearClipLeavesPositiveDepth ==
    (call.op \in {"draw_wall", "draw_sprite"} /\ call.result[1]) =>
        /\ ~ (lt_NEAR(call.args[1][2]) /\ lt_NEAR(call.args[2][2]))
        /\ call.result[2].clipped # "none" => call.result[2].denominator # 0
        /\ call.result[2].a_z >= 1 /\ call.result[2].b_z >= 1

\* A wall that crosses the near plane inside the frustum passed the culling:
\* its first endpoint lies behind the camera and was moved onto the near plane.
C25_Witness ==
    /\ call.op = "draw_wall"
    /\ call.result[1]
    /\ call.args[1][2] < 0
    /\ call.result[2].clipped = "a"
    /\ call.result[2].a_z = 1


\* C26: PortalTree::reset (the reset at the start of update, before the root
\* is pushed) empties the node list, sets the clip bounds of depth 0 to
\* min = 0 and max = screen height in every column, and leaves the clip rows
\* of every depth >= 1 as they were.
C26_ResetKeepsDeeperRows ==
    [][hist'.op = "begin" =>
          /\ nodes' = <<RootNode(hist'.player[1])>>
          /\ portal_bounds_min'[1] = Filled(0) /\ portal_bounds_max'[1] = Filled(height)
          /\ \A d \in 2..Len(portal_bounds_min) :
                /\ portal_bounds_min'[d] = portal_bounds_min[d]
                /\ portal_bounds_max'[d] = portal_bounds_max[d]]_vars

\* C27: key press edge detection.  Handling KeyPressed(k) for a key that is
\* not held makes is_key_pressed(k) and is_key_held(k) true; is_key_pressed(k)
\* then stays true under every further keyboard event until the next
\* Input::update, which clears pressed for all keys and leaves held unchanged.
C27_PressedUntilUpdate ==
    [][/\ \A k \in input_hist'.fresh : is_key_pressed(k)'
       /\ (input_hist'.op = "key_pressed" /\ ~ key_states[input_hist'.key].held)
             => key_states'[input_hist'.key] = [pressed |-> TRUE, held |-> TRUE]
       /\ input_hist'.op = "update"
             => \A k \in Keys : /\ ~ is_key_pressed(k)'
                                /\ is_key_held(k)' = is_key_held(k)]_vars

\* Which side of edge i of the convex polygon poly the point p is on, relative
\* to the polygon's winding: positive inside, zero on the edge's line.
EdgeSide(poly, i, p) ==
    LET e == PolyEdge(poly, i)
        o == cross(Sub(poly[2], poly[1]), Sub(poly[3], poly[1]))
    IN  Sign(cross(Sub(e[2], e[1]), Sub(p, e[1]))) * Sign(o)

StrictlyInside(poly, p) == \A i \in 1..Len(poly) : EdgeSide(poly, i, p) > 0

StrictlyOutside(poly, p) == \E i \in 1..Len(poly) : EdgeSide(poly, i, p) < 0

\* C28: contains_point returns true for every point strictly inside a simple
\* polygon and false for every point strictly outside it, also when the
\* point is level with one of the polygon's vertices.
C28_ContainsPointExact ==
    call.op = "contains_point" =>
        /\ StrictlyInside(call.args[1], call.args[2]) => call.result[1]
        /\ StrictlyOutside(call.args[1], call.args[2]) => ~ call.result[1]

\* C29: while update runs, every node satisfies x_min <= x_max <= width, and
\* the column indices of the per-column buffers are below width; in
\* particular the read y_bounds.0[portal.x_min] that draw_plane begins with
\* is in range for every node that reaches it.
C29_ColumnIndicesInRange ==
    /\ pc # "idle" =>
          \A i \in 1..Len(nodes) : nodes[i].x_min <= nodes[i].x_max /\ nodes[i].x_max <= width
    /\ pc = "planes" => CurNode.x_min < width

====
